---------------------------- MODULE Spec2Model ----------------------------
(***************************************************************************)
(* apk-forge: a state-machine model of the JAR v1 signer                   *)
(* (apk-signer.ts), the APK processing pipeline (apk-processor.ts) and the *)
(* compiled-XML codec (axml-parser.ts).                                    *)
(*                                                                         *)
(* Text is a sequence of UTF-16 code units.  A code unit is written as a   *)
(* one-character string; "U+00E9" is the single code unit U+00E9, which    *)
(* takes two bytes in UTF-8.  Bytes of text files are sequences of the     *)
(* same kind ("0xC3" and "0xA9" are the two bytes of U+00E9).              *)
(***************************************************************************)
EXTENDS Integers, Sequences, FiniteSets, TLC

VARIABLES
    wLine, wOut, wpc,                    \* wrapLine: argument, result, position
    sgSet, sgPending, sgFiles, sgMF, sgSF, sgpc,
                                         \* signApk on a file map filled by parallel reads
    axDoc, axOut, axpc,                  \* the codec: input buffer, result, position
    pIn,                                 \* processApk: the input file
    pFault,                              \* the collaborator that fails in this run, if any
    pZip,                                \* mainZip, the working archive
    pApk, pSplitPending, pMerged,        \* the merge loop: split index, reads in flight, mergedCount
    pManifest,                           \* manifestData
    pPending, pFileMap,                  \* collectFiles: reads in flight, fileMap
    pKey,                                \* signingKey
    pOut,                                \* the archive serialized by generateAsync
    pResult, pLogs,                      \* the ProcessResult and the events passed to onLog
    ppc,                                 \* position in processApk
    lnLen, lnOut, lnRead, lnpc           \* a length prefix: length, bytes written, value read, position

wrapVars == <<wLine, wOut, wpc>>
signVars == <<sgSet, sgPending, sgFiles, sgMF, sgSF, sgpc>>
axmlVars == <<axDoc, axOut, axpc>>
lenVars == <<lnLen, lnOut, lnRead, lnpc>>
pipeVars == <<pIn, pFault, pZip, pApk, pSplitPending, pMerged, pManifest, pPending,
              pFileMap, pKey, pOut, pResult, pLogs, ppc>>
vars == <<wrapVars, signVars, axmlVars, pipeVars, lenVars>>

\* A part of the program that is not running.
WrapIdle == wLine = <<>> /\ wOut = <<>> /\ wpc = "off"
SignIdle ==
    /\ sgSet = {} /\ sgPending = {} /\ sgFiles = <<>> /\ sgMF = <<>> /\ sgSF = <<>>
    /\ sgpc = "off"
NoResult == [ok |-> FALSE, why |-> "none"]
AxmlIdle == axDoc = <<>> /\ axOut = NoResult /\ axpc = "off"
LenIdle == lnLen = 0 /\ lnOut = <<>> /\ lnRead = NoResult /\ lnpc = "off"
NoFile == [name |-> "", zip |-> <<>>]
NoKey == [privateKey |-> <<>>, publicKey |-> <<>>, certificate |-> <<>>]
Pending == [success |-> FALSE, apkBlob |-> FALSE, apkInfo |-> FALSE, returned |-> FALSE]
PipeIdle ==
    /\ pIn = NoFile /\ pFault = "none" /\ pZip = <<>> /\ pApk = 0 /\ pSplitPending = {}
    /\ pMerged = 0 /\ pManifest = <<>> /\ pPending = {} /\ pFileMap = <<>> /\ pKey = NoKey
    /\ pOut = <<>> /\ pResult = Pending /\ pLogs = <<>> /\ ppc = "off"

----------------------------------------------------------------------------
(* Strings and text *)

Min(a, b) == IF a < b THEN a ELSE b
Max(a, b) == IF a > b THEN a ELSE b

\* The code units of a string.  A string of this module holds ASCII only:
\* the character written ~ in an entry name is the code unit U+017F (LATIN
\* SMALL LETTER LONG S).
Unit(c) == IF c = "~" THEN "U+017F" ELSE c
Chars(s) == [i \in 1..Len(s) |-> Unit(SubSeq(s, i, i))]

Rep(c, n) == [i \in 1..n |-> c]

CRLF == <<"\r", "\n">>

\* String.prototype.startsWith / substring(from) on code-unit sequences.
StartsWith(t, p) == Len(t) >= Len(p) /\ SubSeq(t, 1, Len(p)) = p
SubstringFrom(t, from) == SubSeq(t, from + 1, Len(t))

\* e, once v has been computed.  TLC computes an argument of an operator
\* when it is first used; a loop that hands its accumulator to the next
\* iteration computes it here, one step at a time.
After(v, e) == IF v = v THEN e ELSE e

\* "const r = v; F(r)": the value of a call is bound once and used by name.
Let(v, F(_)) == F(v)

\* String.prototype.endsWith / includes.
EndsWith(t, p) == Len(t) >= Len(p) /\ SubSeq(t, Len(t) - Len(p) + 1, Len(t)) = p
Includes(t, p) == \E i \in 1..(Len(t) - Len(p) + 1) : SubSeq(t, i, i + Len(p) - 1) = p

\* Concatenation of a sequence of sequences (divide and conquer).
RECURSIVE Flatten(_)
Flatten(ss) ==
    IF Len(ss) = 0 THEN <<>>
    ELSE IF Len(ss) = 1 THEN ss[1]
    ELSE LET h == Len(ss) \div 2
         IN  Flatten(SubSeq(ss, 1, h)) \o Flatten(SubSeq(ss, h + 1, Len(ss)))

\* UTF-16 code of a code unit, for the characters that occur in entry names here.
Digits == Chars("0123456789")
Uppers == Chars("ABCDEFGHIJKLMNOPQRSTUVWXYZ")
Lowers == Chars("abcdefghijklmnopqrstuvwxyz")
IndexIn(tbl, c) == CHOOSE i \in 1..Len(tbl) : tbl[i] = c
InTable(tbl, c) == \E i \in 1..Len(tbl) : tbl[i] = c
CodeOf(c) ==
    IF InTable(Lowers, c) THEN 96 + IndexIn(Lowers, c)
    ELSE IF InTable(Uppers, c) THEN 64 + IndexIn(Uppers, c)
    ELSE IF InTable(Digits, c) THEN 47 + IndexIn(Digits, c)
    ELSE CASE c = " " -> 32 [] c = "-" -> 45 [] c = "." -> 46 [] c = "/" -> 47
           [] c = ":" -> 58
           [] c = "_" -> 95 [] c = "U+00C9" -> 201 [] c = "U+00E9" -> 233
           [] c = "U+017F" -> 383

\* String.prototype.toUpperCase / toLowerCase on the code units that occur
\* here: toUpperCase follows the Unicode case mapping, by which U+00E9 becomes
\* U+00C9 and U+017F becomes S.
UpperUnit(c) ==
    IF InTable(Lowers, c) THEN Uppers[IndexIn(Lowers, c)]
    ELSE IF c = "U+017F" THEN "S"
    ELSE IF c = "U+00E9" THEN "U+00C9"
    ELSE c
ToUpperCase(t) == [i \in 1..Len(t) |-> UpperUnit(t[i])]
ToLowerCase(t) ==
    [i \in 1..Len(t) |-> IF InTable(Uppers, t[i]) THEN Lowers[IndexIn(Uppers, t[i])] ELSE t[i]]

\* TextEncoder.encode: the UTF-8 bytes of one code unit, and of a text.
Utf8Char(c) ==
    IF c = "U+00E9" THEN <<"0xC3", "0xA9">>
    ELSE IF c = "U+017F" THEN <<"0xC5", "0xBF">>
    ELSE <<c>>
Utf8(t) == Flatten([i \in 1..Len(t) |-> Utf8Char(t[i])])

\* String.prototype.split('\r\n'): the pieces between the occurrences of CRLF.
CrlfAt(t) == {i \in 1..(Len(t) - 1) : t[i] = "\r" /\ t[i + 1] = "\n"}
SplitCRLF(t) ==
    LET P == CrlfAt(t)
        n == Cardinality(P)
        pos(k) == IF k = 0 THEN -1
                  ELSE IF k = n + 1 THEN Len(t) + 1
                  ELSE CHOOSE p \in P : Cardinality({q \in P : q < p}) = k - 1
    IN  [k \in 1..(n + 1) |-> SubSeq(t, pos(k - 1) + 2, pos(k) - 1)]

----------------------------------------------------------------------------
(* apk-signer.ts *)

WrapFirst == 70
WrapCont == 69
DigestLen == 44

\* sha256Base64: 44 Base64 characters.  The digest is kept symbolic: its first
\* character stands for the whole hash value and determines the data.
sha256Base64(data) == <<"#" \o ToString(data)>> \o Rep("=", DigestLen - 1)

RECURSIVE wrapRemaining(_)
wrapRemaining(remaining) ==
    IF Len(remaining) > 0
    THEN <<" ">> \o SubSeq(remaining, 1, Min(WrapCont, Len(remaining))) \o CRLF
         \o wrapRemaining(SubstringFrom(remaining, WrapCont))
    ELSE <<>>

wrapLine(line) ==
    IF Len(line) <= WrapFirst
    THEN line \o CRLF
    ELSE SubSeq(line, 1, WrapFirst) \o CRLF \o wrapRemaining(SubstringFrom(line, WrapFirst))

formatManifestEntry(name, hash, digestName) ==
    wrapLine(Chars("Name: ") \o name)
    \o wrapLine(digestName \o Chars(": ") \o hash)
    \o CRLF


\* A Map<string, ArrayBuffer> is the sequence of its <<name, data>> pairs in
\* insertion order; names are unique.
MapKeys(files) == {files[i][1] : i \in 1..Len(files)}
MapGet(files, name) == (CHOOSE i \in 1..Len(files) : files[i][1] = name) \* index
MapData(files, name) == files[MapGet(files, name)][2]
MapKeySeq(files) == [i \in 1..Len(files) |-> files[i][1]]

\* Array.prototype.sort() without comparator: ascending by UTF-16 code units.
LexLess(a, b) ==
    LET D == {i \in 1..Min(Len(a), Len(b)) : a[i] # b[i]}
    IN  IF D = {} THEN Len(a) < Len(b)
        ELSE LET d == CHOOSE i \in D : \A j \in D : i <= j
             IN  CodeOf(a[d]) < CodeOf(b[d])
NameLess(m, n) == LexLess(Chars(m), Chars(n))
SortNames(keys) ==
    LET S == {keys[i] : i \in 1..Len(keys)}
    IN  [k \in 1..Cardinality(S) |->
            CHOOSE n \in S : Cardinality({m \in S : NameLess(m, n)}) = k - 1]

ManifestHeader ==
    Chars("Manifest-Version: 1.0") \o CRLF
    \o Chars("Created-By: 1.0 (APK Debugger)") \o CRLF
    \o CRLF

\* (mutant) the keys in insertion order, the sort forgotten.
sortedFiles_unsorted(files) == MapKeySeq(files)

\* The order in which createManifestMF visits the map.
sortedFiles(files) == SortNames(MapKeySeq(files))

\* (mutant) no entry is skipped.
skipsEntry_never(name) == FALSE

\* if (name.startsWith('META-INF/')) continue;
skipsEntry(name) == StartsWith(Chars(name), Chars("META-INF/"))

createManifestMF(files) ==
    LET names == sortedFiles(files)
    IN  ManifestHeader
        \o Flatten([k \in 1..Len(names) |->
              IF skipsEntry(names[k])
              THEN <<>>
              ELSE formatManifestEntry(Chars(names[k]),
                                       sha256Base64(MapData(files, names[k])),
                                       Chars("SHA-256-Digest"))])

\* (mutant) the bytes of an entry block without its trailing blank line.
entryBlockBytes_noBlankLine(currentEntry) == Utf8(currentEntry)

\* The bytes createCertSF hashes at the end of an entry: the accumulated
\* lines and the blank line that ends the block.
entryBlockBytes(currentEntry) == Utf8(currentEntry \o CRLF)

\* One iteration of the loop of createCertSF over the lines of MANIFEST.MF.
certSFStep(st, line) ==
    IF StartsWith(line, Chars("Name: "))
    THEN [st EXCEPT !.currentName = SubstringFrom(line, 6),
                    !.currentEntry = line \o CRLF]
    ELSE IF StartsWith(line, Chars(" "))
    THEN [st EXCEPT !.currentEntry = @ \o line \o CRLF]
    ELSE IF StartsWith(line, Chars("SHA-256-Digest:")) \/ StartsWith(line, Chars("SHA256-Digest:"))
    THEN [st EXCEPT !.currentEntry = @ \o line \o CRLF]
    ELSE IF line = <<>> /\ st.currentName # <<>>
    THEN LET entryHash == sha256Base64(entryBlockBytes(st.currentEntry))
         IN  [sf |-> st.sf \o formatManifestEntry(st.currentName, entryHash,
                                                  Chars("SHA-256-Digest")),
              currentName |-> <<>>,
              currentEntry |-> <<>>]
    ELSE st

RECURSIVE certSFLoop(_, _, _)
certSFLoop(st, lines, i) ==
    IF i > Len(lines) THEN st ELSE certSFLoop(certSFStep(st, lines[i]), lines, i + 1)

\* (mutant) the digest of the main section only.
certSFManifestHash_mainSection(manifestMF) == sha256Base64(Utf8(ManifestHeader))

\* The manifest digest written in the header of the signature file.
certSFManifestHash(manifestMF) == sha256Base64(Utf8(manifestMF))

createCertSF(manifestMF, files) ==
    LET header == Chars("Signature-Version: 1.0") \o CRLF
                  \o Chars("SHA-256-Digest-Manifest: ") \o certSFManifestHash(manifestMF) \o CRLF
                  \o Chars("Created-By: 1.0 (APK Debugger)") \o CRLF
                  \o CRLF
        st0 == [sf |-> header, currentName |-> <<>>, currentEntry |-> <<>>]
    IN  certSFLoop(st0, SplitCRLF(manifestMF), 1).sf

\* CMS SignedData over the bytes of the signature file, with the signer's certificate.
createCertRSA(certSF, signingKey) ==
    [contentType |-> "signedData",
     certificates |-> <<signingKey.certificate>>,
     signature |-> [key |-> signingKey.privateKey, over |-> Utf8(certSF)]]

signApk(files, signingKey) ==
    LET manifestMF == createManifestMF(files)
        certSF == createCertSF(manifestMF, files)
    IN  [manifestMF |-> manifestMF,
         certSF |-> certSF,
         certRSA |-> createCertRSA(certSF, signingKey)]

\* generateSigningKey: a fresh key pair and its self-signed certificate.
generateSigningKey(k) ==
    [privateKey |-> <<"private", k>>, publicKey |-> <<"public", k>>,
     certificate |-> <<"CN=APK Debug Key, O=Debug", k>>]

----------------------------------------------------------------------------
(* axml-parser.ts: constants, DataReader *)

CHUNK_AXML_FILE == 524291
CHUNK_STRING_POOL == 1835009
CHUNK_RESOURCE_IDS == 524672
CHUNK_XML_START_NAMESPACE == 1048832
CHUNK_XML_END_NAMESPACE == 1048833
CHUNK_XML_START_ELEMENT == 1048834
CHUNK_XML_END_ELEMENT == 1048835
CHUNK_XML_CDATA == 1048836
TYPE_INT_BOOLEAN == 18
ATTR_DEBUGGABLE == 16842767

\* A JavaScript string as the sequence of its UTF-16 codes.
Codes(s) == [i \in 1..Len(s) |-> CodeOf(SubSeq(s, i, i))]
ANDROID_NS == Codes("http:") \o <<47, 47>> \o Codes("schemas.android.com/apk/res/android")
STR_application == Codes("application")
STR_debuggable == Codes("debuggable")

\* A position past the end of every buffer: where a size of 2^31 or more leads.
Far == 1073741824

\* A buffer is a sequence of bytes; offsets count from 0.  A DataView read
\* outside the buffer throws RangeError: Has is the test the callers make.
Has(d, o, n) == o >= 0 /\ n >= 0 /\ o + n <= Len(d)
readUint8(d, o) == d[o + 1]
readUint16(d, o) == d[o + 1] + 256 * d[o + 2]
readInt32(d, o) ==
    d[o + 1] + 256 * d[o + 2] + 65536 * d[o + 3]
    + 16777216 * (IF d[o + 4] >= 128 THEN d[o + 4] - 256 ELSE d[o + 4])
\* An unsigned 32-bit value v is represented by v itself below 2^31 and by
\* v - 2^32 from 2^31 on (the same 32 bits): identifiers, comments and type
\* words keep all their bits; sizes, counts and offsets of 2^31 or more are
\* treated as leading past the end of the buffer.
readUint32(d, o) == readInt32(d, o)
Advance(pos, size) == IF size < 0 \/ size >= Far \/ pos >= Far THEN Far ELSE Min(pos + size, Far)

\* x >> 24 on a 32-bit value; x & (1 << 8) # 0.
Shr24(x) == x \div 16777216
Bit8(x) == (x \div 256) % 2 = 1

\* this.parsed.strings[index] || ''
StrAt(strings, index) ==
    IF index >= 0 /\ index < Len(strings) THEN strings[index + 1] ELSE <<>>
\* Array.prototype.indexOf
IndexOf(seq, x) ==
    LET S == {i \in 1..Len(seq) : seq[i] = x}
    IN  IF S = {} THEN -1 ELSE (CHOOSE i \in S : \A j \in S : i <= j) - 1

Throw == [ok |-> FALSE, why |-> "throws"]
Diverge == [ok |-> FALSE, why |-> "diverges"]

----------------------------------------------------------------------------
(* AXMLParser *)

\* TextDecoder('utf-8').decode: well-formed one-, two- and three-byte
\* sequences decode to their code unit; every byte outside such a sequence
\* decodes to U+FFFD.
Utf8Decode(b) ==
    LET cont(i) == i <= Len(b) /\ b[i] \div 64 = 2
        two(i) == i >= 1 /\ b[i] >= 194 /\ b[i] < 224 /\ cont(i + 1)
        three(i) == /\ i >= 1 /\ b[i] >= 224 /\ b[i] < 240 /\ cont(i + 1) /\ cont(i + 2)
                    /\ (b[i] % 16) * 4096 + (b[i + 1] % 64) * 64 >= 2048
        consumed(i) == two(i - 1) \/ three(i - 1) \/ three(i - 2)
        unit(i) == IF consumed(i) THEN <<>>
                   ELSE IF b[i] < 128 THEN <<b[i]>>
                   ELSE IF two(i) THEN <<(b[i] % 32) * 64 + (b[i + 1] % 64)>>
                   ELSE IF three(i)
                   THEN <<(b[i] % 16) * 4096 + (b[i + 1] % 64) * 64 + (b[i + 2] % 64)>>
                   ELSE <<65533>>
    IN  Flatten([i \in 1..Len(b) |-> unit(i)])

readUtf8Length(d, p) ==
    IF ~Has(d, p, 1) THEN Throw
    ELSE IF readUint8(d, p) >= 128
    THEN IF ~Has(d, p + 1, 1) THEN Throw
         ELSE [ok |-> TRUE, len |-> (readUint8(d, p) % 128) * 256 + readUint8(d, p + 1),
               pos |-> p + 2]
    ELSE [ok |-> TRUE, len |-> readUint8(d, p), pos |-> p + 1]

readUtf16Length(d, p) ==
    IF ~Has(d, p, 2) THEN Throw
    ELSE IF readUint16(d, p) >= 32768
    THEN IF ~Has(d, p + 2, 2) THEN Throw
         ELSE [ok |-> TRUE, len |-> (readUint16(d, p) % 32768) * 65536 + readUint16(d, p + 2),
               pos |-> p + 4]
    ELSE [ok |-> TRUE, len |-> readUint16(d, p), pos |-> p + 2]

\* One string of the pool, read at p: [ok, str, pos].
readPoolString(d, p, isUtf8) ==
    IF isUtf8
    THEN Let(readUtf8Length(d, p), LAMBDA charLen :
             IF ~charLen.ok THEN Throw
             ELSE Let(readUtf8Length(d, charLen.pos), LAMBDA byteLen :
                      IF ~byteLen.ok THEN Throw
                      ELSE IF ~Has(d, byteLen.pos, byteLen.len) THEN Throw
                      ELSE [ok |-> TRUE,
                            str |-> Utf8Decode(SubSeq(d, byteLen.pos + 1,
                                                      byteLen.pos + byteLen.len)),
                            pos |-> byteLen.pos + byteLen.len]))
    ELSE Let(readUtf16Length(d, p), LAMBDA charLen :
             IF ~charLen.ok THEN Throw
             ELSE IF ~Has(d, charLen.pos, 2 * charLen.len) THEN Throw
             ELSE [ok |-> TRUE,
                   str |-> [j \in 1..charLen.len |-> readUint16(d, charLen.pos + 2 * (j - 1))],
                   pos |-> charLen.pos + 2 * charLen.len])

\* The loop that reads the strings: [ok, strings, pos].
RECURSIVE readPoolStrings(_, _, _, _, _, _, _)
readPoolStrings(d, stringsDataStart, offsetsAt, isUtf8, i, stringCount, acc) ==
    IF i >= stringCount THEN acc
    ELSE Let(readPoolString(d, Advance(stringsDataStart, readUint32(d, offsetsAt + 4 * i)),
                            isUtf8), LAMBDA r :
             IF ~r.ok THEN Throw
             ELSE Let([ok |-> TRUE, strings |-> Append(acc.strings, r.str), pos |-> r.pos],
                      LAMBDA acc1 :
                          After(acc1, readPoolStrings(d, stringsDataStart, offsetsAt, isUtf8,
                                                      i + 1, stringCount, acc1))))

\* parseStringPool, the chunk starting at chunkStart: [ok, strings, pos].
parseStringPool(d, chunkStart) ==
    IF ~Has(d, chunkStart + 8, 20) THEN Throw
    ELSE LET stringCount == readUint32(d, chunkStart + 8)
             styleCount == readUint32(d, chunkStart + 12)
             flags == readUint32(d, chunkStart + 16)
             stringsStart == readUint32(d, chunkStart + 20)
             isUtf8 == Bit8(flags)
             offsetsAt == chunkStart + 28
         IN  IF stringCount < 0 \/ styleCount < 0 \/ stringCount > Len(d) \/ styleCount > Len(d)
             THEN Throw
             ELSE IF ~Has(d, offsetsAt, 4 * stringCount + 4 * styleCount) THEN Throw
             ELSE readPoolStrings(d, Advance(chunkStart + 8, stringsStart), offsetsAt, isUtf8,
                                  0, stringCount,
                                  [ok |-> TRUE, strings |-> <<>>,
                                   pos |-> offsetsAt + 4 * stringCount + 4 * styleCount])

\* parseResourceIds: count = (chunkSize - 8) / 4, a floating-point bound of the loop.
parseResourceIds(d, chunkStart, chunkSize) ==
    LET count == IF chunkSize < 0 THEN Far
                 ELSE IF chunkSize <= 8 THEN 0 ELSE (chunkSize - 8 + 3) \div 4
    IN  IF count > Len(d) \/ ~Has(d, chunkStart + 8, 4 * count) THEN Throw
        ELSE [ok |-> TRUE,
              resourceIds |-> [i \in 1..count |-> readUint32(d, chunkStart + 8 + 4 * (i - 1))],
              pos |-> chunkStart + 8 + 4 * count]

NoAttributes ==
    [hasAttributes |-> FALSE, attributeStart |-> 0, attributeSize |-> 0, attributeCount |-> 0,
     idIndex |-> 0, classIndex |-> 0, styleIndex |-> 0, attributes |-> <<>>]

Element(chunkType, lineNumber, comment, namespaceUri, name, rest) ==
    [chunkType |-> chunkType, lineNumber |-> lineNumber, comment |-> comment,
     namespaceUri |-> namespaceUri, name |-> name,
     hasAttributes |-> rest.hasAttributes, attributeStart |-> rest.attributeStart,
     attributeSize |-> rest.attributeSize, attributeCount |-> rest.attributeCount,
     idIndex |-> rest.idIndex, classIndex |-> rest.classIndex, styleIndex |-> rest.styleIndex,
     attributes |-> rest.attributes]

\* One attribute record of 20 bytes read at p.
readAttribute(d, p) ==
    [namespaceUri |-> readInt32(d, p),
     name |-> readUint32(d, p + 4),
     valueString |-> readInt32(d, p + 8),
     type |-> Shr24(readUint32(d, p + 12)),
     data |-> readInt32(d, p + 16)]

\* parseNamespace / parseEndElement: four words after the chunk header.
parseNamespace(d, chunkStart, chunkType) ==
    IF ~Has(d, chunkStart + 8, 16) THEN Throw
    ELSE [ok |-> TRUE,
          element |-> Element(chunkType, readUint32(d, chunkStart + 8),
                              readUint32(d, chunkStart + 12), readUint32(d, chunkStart + 16),
                              readUint32(d, chunkStart + 20), NoAttributes),
          pos |-> chunkStart + 24]

parseEndElement(d, chunkStart, chunkType) ==
    IF ~Has(d, chunkStart + 8, 16) THEN Throw
    ELSE [ok |-> TRUE,
          element |-> Element(chunkType, readUint32(d, chunkStart + 8),
                              readUint32(d, chunkStart + 12), readInt32(d, chunkStart + 16),
                              readUint32(d, chunkStart + 20), NoAttributes),
          pos |-> chunkStart + 24]

parseStartElement(d, chunkStart) ==
    IF ~Has(d, chunkStart + 8, 28) THEN Throw
    ELSE LET attributeCount == readUint16(d, chunkStart + 28)
         IN  IF ~Has(d, chunkStart + 36, 20 * attributeCount) THEN Throw
             ELSE [ok |-> TRUE,
                   element |->
                       Element(CHUNK_XML_START_ELEMENT, readUint32(d, chunkStart + 8),
                               readUint32(d, chunkStart + 12), readInt32(d, chunkStart + 16),
                               readUint32(d, chunkStart + 20),
                               [hasAttributes |-> TRUE,
                                attributeStart |-> readUint16(d, chunkStart + 24),
                                attributeSize |-> readUint16(d, chunkStart + 26),
                                attributeCount |-> attributeCount,
                                idIndex |-> readUint16(d, chunkStart + 30),
                                classIndex |-> readUint16(d, chunkStart + 32),
                                styleIndex |-> readUint16(d, chunkStart + 34),
                                attributes |-> [i \in 1..attributeCount |->
                                    readAttribute(d, chunkStart + 36 + 20 * (i - 1))]]),
                   pos |-> chunkStart + 36 + 20 * attributeCount]

parseCData(d, chunkStart) ==
    IF ~Has(d, chunkStart + 8, 12) THEN Throw
    ELSE [ok |-> TRUE,
          element |-> Element(CHUNK_XML_CDATA, readUint32(d, chunkStart + 8),
                              readUint32(d, chunkStart + 12), -1,
                              readUint32(d, chunkStart + 16), NoAttributes),
          pos |-> chunkStart + 28]

\* The chunk loop of parse.  st: the parser's fields and the reader's position.
RECURSIVE parseChunks(_, _, _)
parseChunks(d, fileSize, st) ==
    IF ~(fileSize < 0 \/ st.pos < fileSize) THEN [ok |-> TRUE, st |-> st]
    ELSE IF ~Has(d, st.pos, 8) THEN Throw
    ELSE
    LET chunkStart == st.pos
        chunkType == readUint32(d, chunkStart)
        chunkSize == readUint32(d, chunkStart + 4)
        chunkEnd == Advance(chunkStart, chunkSize)
        first == IF st.elementsOffset = 0 THEN chunkStart ELSE st.elementsOffset
    IN  IF chunkType = CHUNK_STRING_POOL
        THEN Let(parseStringPool(d, chunkStart), LAMBDA r :
                 IF ~r.ok THEN Throw
                 ELSE parseChunks(d, fileSize,
                        [st EXCEPT !.stringPoolOffset = chunkStart, !.stringPoolSize = chunkSize,
                                   !.strings = @ \o r.strings, !.pos = Max(r.pos, chunkEnd)]))
        ELSE IF chunkType = CHUNK_RESOURCE_IDS
        THEN Let(parseResourceIds(d, chunkStart, chunkSize), LAMBDA r :
                 IF ~r.ok THEN Throw
                 ELSE parseChunks(d, fileSize,
                        [st EXCEPT !.resourceIdsOffset = chunkStart, !.resourceIdsSize = chunkSize,
                                   !.resourceIds = @ \o r.resourceIds,
                                   !.pos = Max(r.pos, chunkEnd)]))
        ELSE IF chunkType \in {CHUNK_XML_START_NAMESPACE, CHUNK_XML_END_NAMESPACE}
        THEN Let(parseNamespace(d, chunkStart, chunkType), LAMBDA r :
                 IF ~r.ok THEN Throw
                 ELSE parseChunks(d, fileSize,
                        [st EXCEPT !.elementsOffset = first,
                                   !.elements = Append(@, r.element),
                                   !.pos = Max(r.pos, chunkEnd)]))
        ELSE IF chunkType = CHUNK_XML_START_ELEMENT
        THEN Let(parseStartElement(d, chunkStart), LAMBDA r :
                 IF ~r.ok THEN Throw
                 ELSE parseChunks(d, fileSize,
                        [st EXCEPT !.elementsOffset = first,
                                   !.elements = Append(@, r.element),
                                   !.pos = Max(r.pos, chunkEnd)]))
        ELSE IF chunkType = CHUNK_XML_END_ELEMENT
        THEN Let(parseEndElement(d, chunkStart, chunkType), LAMBDA r :
                 IF ~r.ok THEN Throw
                 ELSE parseChunks(d, fileSize,
                        [st EXCEPT !.elements = Append(@, r.element),
                                   !.pos = Max(r.pos, chunkEnd)]))
        ELSE IF chunkType = CHUNK_XML_CDATA
        THEN Let(parseCData(d, chunkStart), LAMBDA r :
                 IF ~r.ok THEN Throw
                 ELSE parseChunks(d, fileSize,
                        [st EXCEPT !.elements = Append(@, r.element),
                                   !.pos = Max(r.pos, chunkEnd)]))
        ELSE \* an unknown chunk is skipped by its size; a size of 0 never advances
             IF chunkSize = 0 THEN Diverge
             ELSE parseChunks(d, fileSize, [st EXCEPT !.pos = chunkEnd])

\* AXMLParser.parse: [ok, parsed] or [ok |-> FALSE, why].
parse(data) ==
    IF ~Has(data, 0, 4) THEN Throw
    ELSE IF readUint32(data, 0) # CHUNK_AXML_FILE THEN Throw
    ELSE IF ~Has(data, 4, 4) THEN Throw
    ELSE Let(parseChunks(data, readUint32(data, 4),
                      [pos |-> 8, strings |-> <<>>, resourceIds |-> <<>>, elements |-> <<>>,
                       stringPoolOffset |-> 0, stringPoolSize |-> 0,
                       resourceIdsOffset |-> 0, resourceIdsSize |-> 0, elementsOffset |-> 0]),
             LAMBDA r :
             IF ~r.ok THEN r
             ELSE [ok |-> TRUE,
                   parsed |-> [strings |-> r.st.strings, resourceIds |-> r.st.resourceIds,
                               elements |-> r.st.elements, rawData |-> data,
                               stringPoolOffset |-> r.st.stringPoolOffset,
                               stringPoolSize |-> r.st.stringPoolSize,
                               resourceIdsOffset |-> r.st.resourceIdsOffset,
                               resourceIdsSize |-> r.st.resourceIdsSize,
                               elementsOffset |-> r.st.elementsOffset]])

----------------------------------------------------------------------------
(* DataWriter, DataView writes *)

\* The four bytes of a 32-bit value (little endian), the two of a 16-bit one.
Int32Bytes(v) ==
    <<v % 256, (v \div 256) % 256, (v \div 65536) % 256, (v \div 16777216) % 256>>
Uint16Bytes(v) == <<v % 256, (v \div 256) % 256>>

\* d with the bytes bs written at offset o.
SetBytes(d, o, bs) ==
    [i \in 1..Len(d) |-> IF i > o /\ i <= o + Len(bs) THEN bs[i - o] ELSE d[i]]

\* A DataWriter: the bytes written so far (offset = Len(bytes)), the capacity
\* of its ArrayBuffer, and gen, the number of times ensureCapacity has
\* replaced the buffer.  A DataView taken at generation g writes into the
\* buffer of that generation: once the writer has moved on, its writes are lost.
DataWriter(size) == [bytes |-> <<>>, cap |-> size, gen |-> 0]

ensureCapacity(w, needed) ==
    IF Len(w.bytes) + needed > w.cap
    THEN [w EXCEPT !.cap = Max(w.cap * 2, Len(w.bytes) + needed), !.gen = @ + 1]
    ELSE w

writeBytes(w, bs) == [ensureCapacity(w, Len(bs)) EXCEPT !.bytes = @ \o bs]
writeUint8(w, v) == writeBytes(w, <<v % 256>>)
writeUint16(w, v) == writeBytes(w, Uint16Bytes(v))
writeUint32(w, v) == writeBytes(w, Int32Bytes(v))
writeInt32(w, v) == writeBytes(w, Int32Bytes(v))

\* view.setUint32(o, v, true) through a DataView taken at generation g.
viewSetUint32(w, g, o, v) ==
    IF g = w.gen THEN [w EXCEPT !.bytes = SetBytes(@, o, Int32Bytes(v))] ELSE w

\* writer.writeUint32 repeated for each element of a sequence.
RECURSIVE writeAll(_, _, _)
writeAll(w, vs, i) ==
    IF i > Len(vs) THEN w
    ELSE Let(writeUint32(w, vs[i]), LAMBDA w1 : After(w1, writeAll(w1, vs, i + 1)))

----------------------------------------------------------------------------
(* AXMLModifier *)

\* TextEncoder.encode of a string of UTF-16 codes (no surrogate pairs).
Utf8EncodeUnit(c) ==
    IF c < 128 THEN <<c>>
    ELSE IF c < 2048 THEN <<192 + (c \div 64), 128 + (c % 64)>>
    ELSE <<224 + (c \div 4096), 128 + ((c \div 64) % 64), 128 + (c % 64)>>
Utf8Encode(str) == Flatten([i \in 1..Len(str) |-> Utf8EncodeUnit(str[i])])

\* (mutant) the first unit of a long prefix is written without its high bit.
writeUtf8Length_noHighBit(w, n) ==
    IF n >= 128
    THEN writeUint8(writeUint8(w, (n \div 256) % 128), n % 256)
    ELSE writeUint8(w, n)

\* The UTF-8 length prefix written by writeStringPool.
writeUtf8Length(w, n) ==
    IF n >= 128
    THEN writeUint8(writeUint8(w, 128 + ((n \div 256) % 128)), n % 256)
    ELSE writeUint8(w, n)

\* The loop of writeStringPool over the strings; view was taken at generation g.
RECURSIVE writePoolStrings(_, _, _, _, _, _)
writePoolStrings(w, g, strings, i, offsetsStart, stringsDataStart) ==
    IF i >= Len(strings) THEN w
    ELSE Let(Utf8Encode(strings[i + 1]), LAMBDA encoded :
             LET stringOffset == Len(w.bytes) - stringsDataStart
                 w1 == viewSetUint32(w, g, offsetsStart + i * 4, stringOffset)
                 w2 == writeUtf8Length(writeUtf8Length(w1, Len(encoded)), Len(encoded))
             IN  Let(writeUint8(writeBytes(w2, encoded), 0), LAMBDA w3 :
                     After(w3, writePoolStrings(w3, g, strings, i + 1, offsetsStart,
                                                stringsDataStart))))

RECURSIVE alignTo4(_)
alignTo4(w) == IF Len(w.bytes) % 4 # 0 THEN alignTo4(writeUint8(w, 0)) ELSE w

writeStringPool(w, strings) ==
    LET startPos == Len(w.bytes)
        chunkSizePos == startPos + 4
        stringsStartPos == startPos + 20
        offsetsStart == startPos + 28
        wh == writeAll(w, <<CHUNK_STRING_POOL, 0, Len(strings), 0, 256, 0, 0>>, 1)
    IN  Let(writeAll(wh, Rep(0, Len(strings)), 1), LAMBDA wo :
            LET stringsDataStart == Len(wo.bytes)
                stringsStart == stringsDataStart - startPos - 8
                g == wo.gen
                w1 == viewSetUint32(wo, g, stringsStartPos, stringsStart)
            IN  Let(alignTo4(writePoolStrings(w1, g, strings, 0, offsetsStart,
                                              stringsDataStart)), LAMBDA w2 :
                    viewSetUint32(w2, w2.gen, chunkSizePos, Len(w2.bytes) - startPos)))

writeResourceIds(w, resourceIds) ==
    writeAll(writeUint32(writeUint32(w, CHUNK_RESOURCE_IDS), 8 + Len(resourceIds) * 4),
             resourceIds, 1)

writeAttribute(w, attr) ==
    writeInt32(writeUint32(writeInt32(writeUint32(writeInt32(w,
        attr.namespaceUri), attr.name), attr.valueString), attr.type * 16777216 + 8), attr.data)

RECURSIVE writeAttributes(_, _, _)
writeAttributes(w, attrs, i) ==
    IF i > Len(attrs) THEN w
    ELSE Let(writeAttribute(w, attrs[i]), LAMBDA w1 :
             After(w1, writeAttributes(w1, attrs, i + 1)))

\* The attribute appended to the application element.
debuggableAttribute(androidNsIdx, debuggableStrIdx) ==
    [namespaceUri |-> androidNsIdx, name |-> debuggableStrIdx, valueString |-> -1,
     type |-> TYPE_INT_BOOLEAN, data |-> -1]

\* One start-element chunk of writeElements, read at chunkStart and written
\* with every attribute named debuggable set to true and, on application
\* without one, the new attribute appended.
writeStartElement(w, parsed, chunkStart, androidNsIdx, debuggableStrIdx) ==
    Let(parseStartElement(parsed.rawData, chunkStart).element, LAMBDA r :
        LET isApplication == StrAt(parsed.strings, r.name) = STR_application
            named(a) == StrAt(parsed.strings, a.name) = STR_debuggable
            attrs0 == [i \in 1..Len(r.attributes) |->
                          IF named(r.attributes[i])
                          THEN [r.attributes[i] EXCEPT !.data = -1]
                          ELSE r.attributes[i]]
            hasDebuggable == \E i \in 1..Len(r.attributes) : named(r.attributes[i])
            elemStartPos == Len(w.bytes)
        IN  Let(IF isApplication /\ ~hasDebuggable
                THEN Append(attrs0, debuggableAttribute(androidNsIdx, debuggableStrIdx))
                ELSE attrs0, LAMBDA attributes :
                LET w1 == writeAll(w, <<CHUNK_XML_START_ELEMENT, 0, r.lineNumber, r.comment,
                                        r.namespaceUri, r.name>>, 1)
                    w2 == writeUint16(writeUint16(writeUint16(writeUint16(writeUint16(
                              writeUint16(w1, 20), 20), Len(attributes)), r.idIndex),
                              r.classIndex), r.styleIndex)
                IN  Let(writeAttributes(w2, attributes, 1), LAMBDA w3 :
                        viewSetUint32(w3, w3.gen, elemStartPos + 4,
                                      Len(w3.bytes) - elemStartPos))))

\* The chunk loop of writeElements: [ok, w].
RECURSIVE writeElementsLoop(_, _, _, _, _)
writeElementsLoop(w, parsed, pos, androidNsIdx, debuggableStrIdx) ==
    LET raw == parsed.rawData
    IN  IF ~(pos < Len(raw)) THEN [ok |-> TRUE, w |-> w]
        ELSE IF ~Has(raw, pos, 8) THEN Throw
        ELSE LET chunkStart == pos
                 chunkType == readUint32(raw, chunkStart)
                 chunkSize == readUint32(raw, chunkStart + 4)
             IN  IF chunkSize = 0 \/ chunkSize < 0 \/ chunkStart + chunkSize > Len(raw)
                 THEN [ok |-> TRUE, w |-> w]
                 ELSE IF chunkType = CHUNK_XML_START_ELEMENT
                 THEN Let(parseStartElement(raw, chunkStart), LAMBDA e :
                          IF ~e.ok THEN Throw
                          ELSE Let(writeStartElement(w, parsed, chunkStart, androidNsIdx,
                                                     debuggableStrIdx), LAMBDA w1 :
                                   After(w1, writeElementsLoop(w1, parsed, e.pos, androidNsIdx,
                                                               debuggableStrIdx))))
                 ELSE Let(writeBytes(w, SubSeq(raw, chunkStart + 1, chunkStart + chunkSize)),
                          LAMBDA w1 :
                          After(w1, writeElementsLoop(w1, parsed, chunkStart + chunkSize,
                                                      androidNsIdx, debuggableStrIdx)))

writeElements(w, parsed, newStrings, debuggableStrIdx) ==
    writeElementsLoop(w, parsed, parsed.elementsOffset,
                      IndexOf(newStrings, ANDROID_NS), debuggableStrIdx)

rebuildWithDebuggable(parsed, originalData) ==
    LET found == IndexOf(parsed.strings, STR_debuggable)
        needNewString == found = -1
        debuggableStrIdx == IF needNewString THEN Len(parsed.strings) ELSE found
        newStrings == IF needNewString THEN Append(parsed.strings, STR_debuggable)
                      ELSE parsed.strings
        needNewResId == IndexOf(parsed.resourceIds, ATTR_DEBUGGABLE) = -1
        newResourceIds == IF needNewResId THEN Append(parsed.resourceIds, ATTR_DEBUGGABLE)
                          ELSE parsed.resourceIds
        w0 == writeUint32(writeUint32(DataWriter(Len(originalData) + 1024), CHUNK_AXML_FILE), 0)
        w1 == writeResourceIds(writeStringPool(w0, newStrings), newResourceIds)
    IN  Let(writeElements(w1, parsed, newStrings, debuggableStrIdx), LAMBDA r :
            IF ~r.ok THEN Throw
            ELSE [ok |-> TRUE, bytes |-> SetBytes(r.w.bytes, 4, Int32Bytes(Len(r.w.bytes)))])

\* The in-place insertion of addDebuggableAttribute: a copy of the buffer with
\* one attribute record spliced in after the last attribute of application.
spliceDebuggable(data, applicationChunkStart, currentAttrCount, attrsOffset, androidNsIdx, debuggableStrIdx) ==
    LET insertPosition == attrsOffset + currentAttrCount * 20
        newAttr == Int32Bytes(androidNsIdx) \o Int32Bytes(debuggableStrIdx) \o Int32Bytes(-1)
                   \o Int32Bytes(TYPE_INT_BOOLEAN * 16777216 + 8) \o Int32Bytes(-1)
    IN  IF insertPosition > Len(data) THEN Throw
        ELSE LET newData == SubSeq(data, 1, insertPosition) \o newAttr
                            \o SubSeq(data, insertPosition + 1, Len(data))
                 oldChunkSize == readUint32(data, applicationChunkStart + 4)
                 d1 == SetBytes(newData, 4, Int32Bytes(Len(newData)))
                 d2 == SetBytes(d1, applicationChunkStart + 4, Int32Bytes(oldChunkSize + 20))
             IN  [ok |-> TRUE,
                  bytes |-> SetBytes(d2, applicationChunkStart + 28,
                                     Uint16Bytes(currentAttrCount + 1))]

\* The search of addDebuggableAttribute for a boolean attribute of the
\* element: its offset, -1 when there is none, "throws" on a read past the end.
RECURSIVE findTemplate(_, _, _, _)
findTemplate(data, attrsOffset, i, currentAttrCount) ==
    IF i >= currentAttrCount THEN -1
    ELSE IF ~Has(data, attrsOffset + i * 20 + 12, 4) THEN -2
    ELSE IF Shr24(readUint32(data, attrsOffset + i * 20 + 12)) = TYPE_INT_BOOLEAN
    THEN attrsOffset + i * 20
    ELSE findTemplate(data, attrsOffset, i + 1, currentAttrCount)

addDebuggableAttribute(parsed, data, applicationChunkStart, currentAttrCount, attrsOffset) ==
    LET debuggableStrIdx == IndexOf(parsed.strings, STR_debuggable)
        androidNsIdx == IndexOf(parsed.strings, ANDROID_NS)
        debuggableResIdx == IndexOf(parsed.resourceIds, ATTR_DEBUGGABLE)
        \* the template search runs only when the string or the identifier is missing
        templateAttrOffset == IF debuggableStrIdx = -1 \/ debuggableResIdx = -1
                              THEN findTemplate(data, attrsOffset, 0, currentAttrCount)
                              ELSE -1
    IN  IF templateAttrOffset = -2 THEN Throw
        ELSE IF templateAttrOffset # -1 /\ debuggableStrIdx # -1
        THEN spliceDebuggable(data, applicationChunkStart, currentAttrCount,
                              attrsOffset, androidNsIdx, debuggableStrIdx)
        \* both "return this.rebuildWithDebuggable(data)" of the method
        ELSE rebuildWithDebuggable(parsed, data)

\* The overwrite of makeDebuggable: view.setInt32(attrOffset + 16, -1, true).
setDebuggableTrue(data, attrOffset) == SetBytes(data, attrOffset + 16, Int32Bytes(-1))

\* The scan of the attributes of application in makeDebuggable.
RECURSIVE scanApplication(_, _, _, _, _)
scanApplication(parsed, data, chunkStart, i, attrCount) ==
    LET attrsOffset == chunkStart + 36
        attrOffset == attrsOffset + i * 20
    IN  IF i >= attrCount
        THEN addDebuggableAttribute(parsed, data, chunkStart, attrCount, attrsOffset)
        ELSE IF ~Has(data, attrOffset + 4, 4) THEN Throw
        ELSE IF StrAt(parsed.strings, readUint32(data, attrOffset + 4)) = STR_debuggable
        THEN IF ~Has(data, attrOffset + 16, 4) THEN Throw
             ELSE [ok |-> TRUE, bytes |-> setDebuggableTrue(data, attrOffset)]
        ELSE scanApplication(parsed, data, chunkStart, i + 1, attrCount)

\* The chunk loop of makeDebuggable.
RECURSIVE makeDebuggableLoop(_, _)
makeDebuggableLoop(parsed, pos) ==
    LET data == parsed.rawData
    IN  IF ~(pos < Len(data)) THEN [ok |-> TRUE, bytes |-> data]
        ELSE IF ~Has(data, pos, 8) THEN Throw
        ELSE LET chunkStart == pos
                 chunkType == readUint32(data, chunkStart)
                 chunkSize == readUint32(data, chunkStart + 4)
                 next == IF chunkSize = 0 THEN [ok |-> TRUE, bytes |-> data]
                         ELSE makeDebuggableLoop(parsed, Advance(chunkStart, chunkSize))
             IN  IF chunkType = CHUNK_XML_START_ELEMENT
                 THEN IF ~Has(data, chunkStart + 16, 20) THEN Throw
                      ELSE IF StrAt(parsed.strings, readUint32(data, chunkStart + 20))
                              = STR_application
                      THEN scanApplication(parsed, data, chunkStart, 0,
                                           readUint16(data, chunkStart + 28))
                      ELSE next
                 ELSE next

makeDebuggable(parsed) == makeDebuggableLoop(parsed, parsed.elementsOffset)

\* makeManifestDebuggable: [ok, bytes], or not ok (it throws, or never returns).
makeManifestDebuggable(data) ==
    Let(parse(data), LAMBDA r : IF ~r.ok THEN r ELSE makeDebuggable(r.parsed))

----------------------------------------------------------------------------
(* apk-processor.ts: the byte scan *)

SetMin(S) == CHOOSE x \in S : \A y \in S : x <= y

DebuggableId == <<15, 0, 1, 1>>
BooleanMarker == <<18, 0, 0, 8>>
BytesAt(d, o, bs) == \A k \in 1..Len(bs) : d[o + k] = bs[k]

\* The inner loop of patchManifestBinary for one i: the first j at which the
\* marker stands, -1 when there is none.
markerAfter(result, i) ==
    LET J == {j \in (i + 4)..(Min(i + 24, Len(result) - 4) - 1) :
                 BytesAt(result, j, BooleanMarker)}
    IN  IF J = {} THEN -1 ELSE SetMin(J)

\* A write to a typed array at an index past its end is ignored.
patchManifestBinary(data) ==
    LET I == {i \in 0..(Len(data) - 21) :
                 BytesAt(data, i, DebuggableId) /\ markerAfter(data, i) # -1}
    IN  IF I = {} THEN data
        ELSE LET j == markerAfter(data, SetMin(I))
             IN  [k \in 1..Len(data) |-> IF k > j + 4 /\ k <= j + 8 THEN 255 ELSE data[k]]

----------------------------------------------------------------------------
(* apk-processor.ts: archives, removeSignatures, collectFiles, the bundle *)

\* A JSZip archive is a function from entry names to [dir, data]:
\* zip.file(name) is the entry of that name unless it is a directory,
\* zip.file(name, data) adds or replaces a file entry, zip.remove(name)
\* removes the entry, zip.forEach visits every entry, directories included.
EmptyZip == [n \in {} |-> [dir |-> FALSE, data |-> <<>>]]
ZipFile(zip, name) == name \in DOMAIN zip /\ ~zip[name].dir
ZipPut(zip, name, data) ==
    [n \in DOMAIN zip \cup {name} |-> IF n = name THEN [dir |-> FALSE, data |-> data] ELSE zip[n]]
ZipRemove(zip, names) == [n \in DOMAIN zip \ names |-> zip[n]]
FileNames(zip) == {n \in DOMAIN zip : ~zip[n].dir}

\* The test of removeSignatures on one path.
isSignaturePath(path) ==
    /\ StartsWith(path, Chars("META-INF/"))
    /\ LET upperPath == ToUpperCase(path)
       IN  \/ EndsWith(upperPath, Chars(".SF"))
           \/ EndsWith(upperPath, Chars(".RSA"))
           \/ EndsWith(upperPath, Chars(".DSA"))
           \/ EndsWith(upperPath, Chars(".EC"))
           \/ upperPath = Chars("META-INF/MANIFEST.MF")
           \/ Includes(upperPath, Chars("CERT"))
           \/ Includes(upperPath, Chars("SIGN"))

filesToRemove(zip) == {path \in DOMAIN zip : isSignaturePath(Chars(path))}
removeSignatures(zip) ==
    [zip |-> ZipRemove(zip, filesToRemove(zip)), count |-> Cardinality(filesToRemove(zip))]

\* (mutant) collectFiles reads every entry, directories included.
collectWanted_all(zip, path) == TRUE

\* collectFiles starts a read for every entry that is not a directory.
collectWanted(zip, path) == ~zip[path].dir

collectReads(zip) == {<<path, zip[path].data>> : path \in {q \in DOMAIN zip : collectWanted(zip, q)}}

\* (mutant) a directory whose name ends with .apk counts as a nested archive.
apkFilesOf_withDirectories(bundle) ==
    LET idx == {i \in 1..Len(bundle) : EndsWith(Chars(bundle[i].name), Chars(".apk"))}
        n == Cardinality(idx)
        at(k) == CHOOSE i \in idx : Cardinality({j \in idx : j < i}) = k - 1
    IN  [k \in 1..n |->
            LET path == bundle[at(k)].name
            IN  [name |-> path,
                 isBase |-> \/ Includes(ToLowerCase(Chars(path)), Chars("base"))
                            \/ Includes(ToLowerCase(Chars(path)), Chars("universal"))
                            \/ path = "base.apk",
                 zip |-> bundle[at(k)].zip]]

\* processApksBundle: the nested archives of the bundle, in enumeration order.
apkFilesOf(bundle) ==
    LET idx == {i \in 1..Len(bundle) :
                   EndsWith(Chars(bundle[i].name), Chars(".apk")) /\ ~bundle[i].dir}
        n == Cardinality(idx)
        at(k) == CHOOSE i \in idx : Cardinality({j \in idx : j < i}) = k - 1
    IN  [k \in 1..n |->
            LET path == bundle[at(k)].name
            IN  [name |-> path,
                 isBase |-> \/ Includes(ToLowerCase(Chars(path)), Chars("base"))
                            \/ Includes(ToLowerCase(Chars(path)), Chars("universal"))
                            \/ path = "base.apk",
                 zip |-> bundle[at(k)].zip]]

\* apkFiles.find(f => f.isBase)?.name, else apkFiles[0].name: the index in apkFiles.
baseApkIndex(apkFiles) ==
    LET B == {k \in 1..Len(apkFiles) : apkFiles[k].isBase}
    IN  IF B = {} THEN 1 ELSE SetMin(B)

\* (mutant) a split entry under META-INF/ is merged like any other.
splitWanted_withMetaInf(mainZip, splitZip, path) ==
    ~splitZip[path].dir /\ ~ZipFile(mainZip, path)

\* (mutant) a split entry is merged whether or not the path is in the base.
splitWanted_noBaseTest(mainZip, splitZip, path) ==
    ~splitZip[path].dir /\ ~StartsWith(Chars(path), Chars("META-INF/"))

\* The test made on each entry of a split when its reads are started.
splitWanted(mainZip, splitZip, path) ==
    /\ ~splitZip[path].dir
    /\ ~StartsWith(Chars(path), Chars("META-INF/"))
    /\ ~ZipFile(mainZip, path)

splitReads(mainZip, splitZip) ==
    {<<path, splitZip[path].data>> :
        path \in {q \in DOMAIN splitZip : splitWanted(mainZip, splitZip, q)}}

\* The first split at or after position i of apkFiles (the base is passed
\* over), Len(apkFiles) + 1 when there is none.
nextSplit(apkFiles, i) ==
    LET base == apkFiles[baseApkIndex(apkFiles)].name
        S == {k \in i..Len(apkFiles) : apkFiles[k].name # base}
    IN  IF S = {} THEN Len(apkFiles) + 1 ELSE SetMin(S)

\* getManifestInfo().isDebuggable: the last debuggable attribute of an
\* application element decides.
isDebuggable(parsed) ==
    LET hits == Flatten([e \in 1..Len(parsed.elements) |->
                   LET el == parsed.elements[e]
                   IN  IF /\ el.chunkType = CHUNK_XML_START_ELEMENT
                          /\ StrAt(parsed.strings, el.name) = STR_application
                       THEN Flatten([a \in 1..Len(el.attributes) |->
                                IF StrAt(parsed.strings, el.attributes[a].name) = STR_debuggable
                                THEN <<el.attributes[a].data>> ELSE <<>>])
                       ELSE <<>>])
    IN  hits # <<>> /\ hits[Len(hits)] # 0

\* String.prototype.replace(pattern, '') with a string pattern: the first
\* occurrence of the pattern, wherever it stands, is taken out.
removeFirst(t, p) ==
    LET S == {i \in 1..(Len(t) - Len(p) + 1) : SubSeq(t, i, i + Len(p) - 1) = p}
    IN  IF S = {} THEN t
        ELSE SubSeq(t, 1, SetMin(S) - 1) \o SubSeq(t, SetMin(S) + Len(p), Len(t))

STR_permissionPrefix == Codes("android.permission.")

\* getManifestInfo().permissions: for each attribute named name of each
\* uses-permission element, the value string if it is not empty.
permissions(parsed) ==
    Flatten([e \in 1..Len(parsed.elements) |->
        LET el == parsed.elements[e]
        IN  IF /\ el.chunkType = CHUNK_XML_START_ELEMENT
               /\ StrAt(parsed.strings, el.name) = Codes("uses-permission")
            THEN Flatten([a \in 1..Len(el.attributes) |->
                     IF StrAt(parsed.strings, el.attributes[a].name) = Codes("name")
                        /\ StrAt(parsed.strings, el.attributes[a].valueString) # <<>>
                     THEN <<removeFirst(StrAt(parsed.strings, el.attributes[a].valueString),
                                        STR_permissionPrefix)>>
                     ELSE <<>>])
            ELSE <<>>])

\* parseAndroidManifest(data): [ok, info, parsed] or [ok |-> FALSE, why].
parseAndroidManifest(data) ==
    Let(parse(data), LAMBDA r :
        IF ~r.ok THEN r
        ELSE [ok |-> TRUE, parsed |-> r.parsed,
              info |-> [isDebuggable |-> isDebuggable(r.parsed),
                        permissions |-> permissions(r.parsed)]])

----------------------------------------------------------------------------
(* Reading a manifest or signature file back, as a JAR verifier does *)

\* The 1-based indices of the empty lines of a split text.
BlankLines(lines) == {i \in 1..Len(lines) : lines[i] = <<>>}

\* The sections of a text: maximal runs of non-empty physical lines, each as
\* <<first, last>> line indices, in order.
SectionRanges(lines) ==
    LET starts == {i \in 1..Len(lines) :
                      lines[i] # <<>> /\ (i = 1 \/ lines[i - 1] = <<>>)}
        n == Cardinality(starts)
        startOf(k) == CHOOSE s \in starts : Cardinality({q \in starts : q < s}) = k - 1
        lastOf(s) == CHOOSE e \in s..Len(lines) :
                         /\ \A j \in s..e : lines[j] # <<>>
                         /\ (e = Len(lines) \/ lines[e + 1] = <<>>)
    IN  [k \in 1..n |-> <<startOf(k), lastOf(startOf(k))>>]

\* The logical lines of a section: every physical line that begins with a
\* space continues the line before it.
RECURSIVE Unwrap(_, _, _)
Unwrap(lines, i, last) ==
    IF i > last THEN <<>>
    ELSE LET conts == {j \in (i + 1)..last :
                          \A m \in (i + 1)..j : StartsWith(lines[m], <<" ">>)}
             e == i + Cardinality(conts)
             logical == lines[i] \o Flatten([m \in 1..(e - i) |-> Tail(lines[i + m])])
         IN  <<logical>> \o Unwrap(lines, e + 1, last)

\* The value of the attribute `key` among the logical lines of a section, or <<"?">>.
AttrValue(logical, key) ==
    LET p == key \o Chars(": ")
        S == {i \in 1..Len(logical) : StartsWith(logical[i], p)}
    IN  IF S = {} THEN <<"?">>
        ELSE SubstringFrom(logical[CHOOSE i \in S : \A j \in S : i <= j], Len(p))

\* The per-entry sections (all sections but the first, the main section):
\* name, digest, and the section's text exactly as it stands, blank line included.
EntryBlocks(t) ==
    LET lines == SplitCRLF(t)
        rs == SectionRanges(lines)
    IN  [k \in 1..(Len(rs) - 1) |->
            LET r == rs[k + 1]
                logical == Unwrap(lines, r[1], r[2])
            IN  [name |-> AttrValue(logical, Chars("Name")),
                 digest |-> AttrValue(logical, Chars("SHA-256-Digest")),
                 text |-> Flatten([m \in 1..(r[2] - r[1] + 1) |-> lines[r[1] + m - 1] \o CRLF])
                          \o CRLF]]

MainAttr(t, key) ==
    LET lines == SplitCRLF(t)
        rs == SectionRanges(lines)
    IN  IF Len(rs) = 0 THEN <<"?">>
        ELSE AttrValue(Unwrap(lines, rs[1][1], rs[1][2]), key)

----------------------------------------------------------------------------
(* wrapLine on its own: SpecWrap *)

MaxLineLen == 150

\* A logical line of n code units; the "latin1" kind has U+00E9 at some places.
LineOf(n, kind) ==
    [i \in 1..n |-> IF kind = "latin1" /\ i % 7 = 3 THEN "U+00E9" ELSE Digits[(i % 10) + 1]]

WrapInit ==
    /\ \E n \in 0..MaxLineLen, kind \in {"ascii", "latin1"} : wLine = LineOf(n, kind)
    /\ wOut = <<>>
    /\ wpc = "call"
    /\ SignIdle /\ AxmlIdle /\ PipeIdle /\ LenIdle

WrapCall ==
    /\ wpc = "call"
    /\ wOut' = wrapLine(wLine)
    /\ wpc' = "done"
    /\ UNCHANGED <<wLine, signVars, axmlVars, pipeVars, lenVars>>

----------------------------------------------------------------------------
(* signApk on a file map filled by parallel reads: SpecSigner *)

MaxFiles == 3
MaxNameLen == 134

\* An entry name of n characters.
RECURSIVE Pad(_, _)
Pad(s, n) == IF Len(s) >= n THEN s ELSE Pad(s \o SubSeq("0123456789", (Len(s) % 10) + 1, (Len(s) % 10) + 1), n)
LongName(n) == Pad("lib/", n)

SignCandidates ==
    { <<"a/x", <<0>>>>, <<"a/y", <<1>>>>, <<"META-INF/OLD.SF", <<2>>>>,
      <<LongName(64), <<3>>>>, <<LongName(65), <<4>>>>, <<LongName(MaxNameLen), <<5>>>> }

SignInit ==
    /\ sgSet \in {S \in SUBSET SignCandidates : Cardinality(S) <= MaxFiles}
    /\ sgPending = sgSet
    /\ sgFiles = <<>>
    /\ sgMF = <<>> /\ sgSF = <<>>
    /\ sgpc = "collect"
    /\ WrapIdle /\ AxmlIdle /\ PipeIdle /\ LenIdle

\* One read of collectFiles completes: fileMap.set(path, data).
SignRead(f) ==
    /\ sgpc = "collect"
    /\ f \in sgPending
    /\ sgPending' = sgPending \ {f}
    /\ sgFiles' = Append(sgFiles, f)
    /\ UNCHANGED <<sgSet, sgMF, sgSF, sgpc, wrapVars, axmlVars, pipeVars, lenVars>>

SignCall ==
    /\ sgpc = "collect"
    /\ sgPending = {}
    /\ LET r == signApk(sgFiles, generateSigningKey(1))
       IN  sgMF' = r.manifestMF /\ sgSF' = r.certSF
    /\ sgpc' = "done"
    /\ UNCHANGED <<sgSet, sgPending, sgFiles, wrapVars, axmlVars, pipeVars, lenVars>>

----------------------------------------------------------------------------
(* makeManifestDebuggable and patchManifestBinary on a buffer: SpecAxml *)

\* Compiled XML documents, laid out as AXMLParser reads them.
Uint32Seq(vs) == Flatten([i \in 1..Len(vs) |-> Int32Bytes(vs[i])])
PadTo4(bs) == bs \o Rep(0, (4 - (Len(bs) % 4)) % 4)

EncodeString(str, isUtf8) ==
    IF isUtf8
    THEN <<Len(str), Len(Utf8Encode(str))>> \o Utf8Encode(str) \o <<0>>
    ELSE Uint16Bytes(Len(str)) \o Flatten([i \in 1..Len(str) |-> Uint16Bytes(str[i])])
         \o <<0, 0>>

RECURSIVE SumLen(_, _)
SumLen(seqs, n) == IF n = 0 THEN 0 ELSE SumLen(seqs, n - 1) + Len(seqs[n])

\* A string pool chunk.  The stringsStart field of the Android format is the
\* offset of the strings data from the start of the chunk (base = 0);
\* parseStringPool and writeStringPool count it from 8 bytes further (base = 8).
StringPoolChunk(strings, isUtf8, base) ==
    LET enc == [i \in 1..Len(strings) |-> EncodeString(strings[i], isUtf8)]
        offsets == [i \in 1..Len(strings) |-> SumLen(enc, i - 1)]
        body == PadTo4(Flatten(enc))
        stringsStart == 28 + 4 * Len(strings)
    IN  Uint32Seq(<<CHUNK_STRING_POOL, stringsStart + Len(body), Len(strings), 0,
                    IF isUtf8 THEN 256 ELSE 0, stringsStart - base, 0>> \o offsets) \o body

ResourceIdsChunk(ids) == Uint32Seq(<<CHUNK_RESOURCE_IDS, 8 + 4 * Len(ids)>> \o ids)
NamespaceChunk(type, prefix, uri) == Uint32Seq(<<type, 24, 1, -1, prefix, uri>>)
StartElementChunk(ns, name, attrs) ==
    Uint32Seq(<<CHUNK_XML_START_ELEMENT, 36 + 20 * Len(attrs), 1, -1, ns, name>>)
    \o Uint16Bytes(20) \o Uint16Bytes(20) \o Uint16Bytes(Len(attrs))
    \o Uint16Bytes(0) \o Uint16Bytes(0) \o Uint16Bytes(0)
    \o Flatten([i \in 1..Len(attrs) |->
                   Uint32Seq(<<attrs[i].namespaceUri, attrs[i].name, attrs[i].valueString,
                               attrs[i].type * 16777216 + 8, attrs[i].data>>)])
EndElementChunk(ns, name) == Uint32Seq(<<CHUNK_XML_END_ELEMENT, 24, 1, -1, ns, name>>)
Document(magic, chunks) ==
    LET body == Flatten(chunks) IN Uint32Seq(<<magic, 8 + Len(body)>>) \o body

TYPE_STRING == 3
\* The resource ids of android:allowBackup and android:label.
OtherResourceIds == <<16843392, 16842753>>

\* The string pool of a sample manifest.  pool = "attr": "debuggable" is an
\* attribute name with its resource id; "plain": it is in the pool but has
\* no resource id; "none": it is not in the pool.
SamplePool(pool) ==
    (IF pool = "attr" THEN <<STR_debuggable>> ELSE <<>>)
    \o <<Codes("allowBackup"), Codes("label"), Codes("android"), ANDROID_NS,
         Codes("manifest"), STR_application, Codes("package"), Codes("a.b"),
         Codes("activity")>>
    \o (IF pool = "plain" THEN <<STR_debuggable>> ELSE <<>>)
SampleResourceIds(pool) ==
    (IF pool = "attr" THEN <<ATTR_DEBUGGABLE>> ELSE <<>>) \o OtherResourceIds

\* The attribute of a sample element: "D" debuggable with the given value,
\* "B" allowBackup (boolean), "L" label (string).
SampleAttribute(strings, kind, value) ==
    LET ns == IndexOf(strings, ANDROID_NS)
    IN  CASE kind = "D" -> [namespaceUri |-> ns, name |-> IndexOf(strings, STR_debuggable),
                            valueString |-> -1, type |-> TYPE_INT_BOOLEAN, data |-> value]
          [] kind = "B" -> [namespaceUri |-> ns, name |-> IndexOf(strings, Codes("allowBackup")),
                            valueString |-> -1, type |-> TYPE_INT_BOOLEAN, data |-> 0]
          [] kind = "L" -> [namespaceUri |-> ns, name |-> IndexOf(strings, Codes("label")),
                            valueString |-> IndexOf(strings, Codes("a.b")),
                            type |-> TYPE_STRING, data |-> IndexOf(strings, Codes("a.b"))]

\* The strings that the uses-permission elements of a sample manifest add
\* to the pool.
PermissionStrings(perms) ==
    IF perms = <<>> THEN <<>> ELSE <<Codes("uses-permission"), Codes("name")>> \o perms

\* A sample manifest: <manifest package="a.b">[<uses-permission name=.../>]
\* <application ...>[<activity label=.../>]</application></manifest> in the
\* android namespace.
SampleManifest(shape) ==
    LET strings == SamplePool(shape.pool) \o PermissionStrings(shape.perms)
        idx(str) == IndexOf(strings, Codes(str))
        attrs(kinds) == [i \in 1..Len(kinds) |-> SampleAttribute(strings, kinds[i], shape.value)]
        package == [namespaceUri |-> -1, name |-> idx("package"), valueString |-> idx("a.b"),
                    type |-> TYPE_STRING, data |-> idx("a.b")]
        nsUri == IndexOf(strings, ANDROID_NS)
        permission(i) ==
            [namespaceUri |-> nsUri, name |-> idx("name"),
             valueString |-> IndexOf(strings, shape.perms[i]), type |-> TYPE_STRING,
             data |-> IndexOf(strings, shape.perms[i])]
    IN  Document(shape.magic,
          <<StringPoolChunk(strings, shape.utf8, shape.base),
            ResourceIdsChunk(SampleResourceIds(shape.pool)),
            NamespaceChunk(CHUNK_XML_START_NAMESPACE, idx("android"), nsUri),
            StartElementChunk(-1, idx("manifest"), <<package>>)>>
          \o Flatten([i \in 1..Len(shape.perms) |->
                  <<StartElementChunk(-1, idx("uses-permission"), <<permission(i)>>),
                    EndElementChunk(-1, idx("uses-permission"))>>])
          \o (IF shape.app
              THEN <<StartElementChunk(-1, idx("application"), attrs(shape.attrs))>>
                   \o (IF shape.activity
                       THEN <<StartElementChunk(-1, idx("activity"), attrs(shape.child)),
                              EndElementChunk(-1, idx("activity"))>>
                       ELSE <<>>)
                   \o <<EndElementChunk(-1, idx("application"))>>
              ELSE <<>>)
          \o <<EndElementChunk(-1, idx("manifest")),
               NamespaceChunk(CHUNK_XML_END_NAMESPACE, idx("android"), nsUri)>>)

Shape(base, utf8, pool, attrs, value, activity) ==
    [magic |-> CHUNK_AXML_FILE, base |-> base, utf8 |-> utf8, pool |-> pool, app |-> TRUE,
     attrs |-> attrs, value |-> value, activity |-> activity, child |-> <<"L">>,
     perms |-> <<>>]

\* Shapes of well-formed manifests: whether application has a debuggable
\* attribute, where, with which value, and what else the pool holds.
SampleShapes ==
    { Shape(b, u, "attr", a, v, c) :
        b \in {0, 8}, u \in BOOLEAN, c \in BOOLEAN, v \in {0, -1},
        a \in {<<"D">>, <<"B", "D">>, <<"D", "L">>} }
    \cup { Shape(b, u, p, a, 0, c) :
        b \in {0, 8}, u \in BOOLEAN, c \in BOOLEAN, p \in {"attr", "plain", "none"},
        a \in {<<>>, <<"B">>, <<"L">>, <<"L", "B">>} }

\* Manifests in which an element other than application has an attribute
\* named debuggable, and application has none.
ChildDebuggable ==
    { [Shape(b, TRUE, "attr", <<"B">>, 0, TRUE) EXCEPT !.child = <<"L", "D">>] : b \in {0, 8} }

\* Manifests with uses-permission elements: a platform permission, a vendor
\* permission whose name holds the platform prefix further in, one that
\* holds it twice, and one without it.
SamplePermissions ==
    { <<Codes("android.permission.INTERNET")>>,
      <<Codes("com.v.android.permission.PUSH")>>,
      <<Codes("android.permission.android.permission.X"), Codes("com.v.READ")>>,
      <<Codes("android.permission.NFC"), Codes("com.v.android.permission.PUSH")>> }
PermissionShapes ==
    { [Shape(b, u, "attr", <<"D">>, 0, FALSE) EXCEPT !.perms = ps] :
        b \in {0, 8}, u \in BOOLEAN, ps \in SamplePermissions }

\* Buffers that are not well-formed manifests: no application element, a
\* wrong magic number, a truncated document, a chunk of unknown type and size
\* 0, buffers holding the resource id followed by the marker of the scan,
\* a document whose names lie outside the pool, and one with a string
\* outside the pool chunk.
\* A document with a pool of one string whose element is named by string 7
\* and has an attribute named by string 9.
DanglingNames ==
    Document(CHUNK_AXML_FILE,
        <<StringPoolChunk(<<Codes("manifest")>>, TRUE, 8),
          StartElementChunk(-1, 7, <<[namespaceUri |-> -1, name |-> 9, valueString |-> -1,
                                      type |-> TYPE_INT_BOOLEAN, data |-> 0]>>),
          EndElementChunk(-1, 7)>>)
\* A document whose pool refers, for its string 0, to bytes outside the pool
\* chunk: the string begins with the last byte of the data word of the
\* attribute of <application> (its character count, 0) and goes on behind
\* the element with the byte count 10 and "debuggable".  The attribute is
\* named by that string.
OverlappedName ==
    Document(CHUNK_AXML_FILE,
        <<Uint32Seq(<<CHUNK_STRING_POOL, 52, 2, 0, 256, 28, 0, 71, 0>>)
              \o PadTo4(EncodeString(STR_application, TRUE)),
          StartElementChunk(-1, 1, <<[namespaceUri |-> -1, name |-> 0, valueString |-> -1,
                                      type |-> TYPE_INT_BOOLEAN, data |-> 0]>>),
          <<10>> \o STR_debuggable \o <<0>>>>)
NoApplication == [Shape(8, TRUE, "attr", <<>>, 0, FALSE) EXCEPT !.app = FALSE]
BadMagic == [Shape(8, TRUE, "attr", <<"D">>, 0, FALSE) EXCEPT !.magic = 0]
OddBuffers ==
    { SampleManifest(NoApplication),
      SampleManifest(BadMagic),
      SubSeq(SampleManifest(Shape(8, TRUE, "attr", <<"D">>, 0, FALSE)), 1, 300),
      Uint32Seq(<<CHUNK_AXML_FILE, 16, 0, 0>>),
      Uint32Seq(<<0, ATTR_DEBUGGABLE, 0>>) \o BooleanMarker \o Uint32Seq(<<0, 0, 0, 0>>),
      Uint32Seq(<<0, 0, 0, ATTR_DEBUGGABLE, 0, 0, 0, 0>>) \o <<0, 0, 0>> \o BooleanMarker
          \o <<0, 0>>,
      DanglingNames,
      OverlappedName }

AxmlInputs ==
    {SampleManifest(sh) : sh \in SampleShapes \cup ChildDebuggable \cup PermissionShapes}
    \cup OddBuffers

AxmlInit ==
    /\ axDoc \in AxmlInputs
    /\ axOut = NoResult
    /\ axpc = "ready"
    /\ WrapIdle /\ SignIdle /\ PipeIdle /\ LenIdle

\* makeManifestDebuggable(axDoc)
AxmlMake ==
    /\ axpc = "ready"
    /\ axOut' = makeManifestDebuggable(axDoc)
    /\ axpc' = "made"
    /\ UNCHANGED <<axDoc, wrapVars, signVars, pipeVars, lenVars>>

\* makeManifestDebuggable applied to the bytes it has returned.
AxmlMakeAgain ==
    /\ axpc = "made" /\ axOut.ok
    /\ axOut' = Let(makeManifestDebuggable(axOut.bytes), LAMBDA r :
                    [ok |-> r.ok, again |-> r, previous |-> axOut.bytes])
    /\ axpc' = "remade"
    /\ UNCHANGED <<axDoc, wrapVars, signVars, pipeVars, lenVars>>

\* parseAndroidManifest(axDoc)
AxmlInfo ==
    /\ axpc = "ready"
    /\ axOut' = parseAndroidManifest(axDoc)
    /\ axpc' = "read"
    /\ UNCHANGED <<axDoc, wrapVars, signVars, pipeVars, lenVars>>

\* patchManifestBinary(axDoc)
AxmlScan ==
    /\ axpc = "ready"
    /\ axOut' = [ok |-> TRUE, bytes |-> patchManifestBinary(axDoc)]
    /\ axpc' = "scanned"
    /\ UNCHANGED <<axDoc, wrapVars, signVars, pipeVars, lenVars>>

----------------------------------------------------------------------------
(* The length prefix of a UTF-8 pool string, written and read: SpecLength *)

\* The byte lengths that a prefix of two units can hold.
LengthInputs == 0..32767

LenInit ==
    /\ lnLen \in LengthInputs
    /\ lnOut = <<>>
    /\ lnRead = NoResult
    /\ lnpc = "ready"
    /\ WrapIdle /\ SignIdle /\ AxmlIdle /\ PipeIdle

\* The prefix as writeStringPool writes it for encoded.length = lnLen.
LenWrite ==
    /\ lnpc = "ready"
    /\ lnOut' = writeUtf8Length(DataWriter(4), lnLen).bytes
    /\ lnpc' = "written"
    /\ UNCHANGED <<lnLen, lnRead, wrapVars, signVars, axmlVars, pipeVars>>

\* readUtf8Length at the start of the bytes written.
LenRead ==
    /\ lnpc = "written"
    /\ lnRead' = readUtf8Length(lnOut, 0)
    /\ lnpc' = "read"
    /\ UNCHANGED <<lnLen, lnOut, wrapVars, signVars, axmlVars, pipeVars>>

----------------------------------------------------------------------------
(* processApk: Spec *)

\* The manifests of the sample archives: one that the in-place path
\* patches, one as the Android tools write it, one without the string and
\* the attribute, one without a valid magic number, one that holds the
\* pattern of the byte scan, one on which parsing never ends.
ManifestInPlace == SampleManifest(Shape(8, TRUE, "attr", <<"B", "D">>, 0, FALSE))
ManifestAndroid == SampleManifest(Shape(0, TRUE, "attr", <<"B", "D">>, 0, FALSE))
ManifestNoAttribute == SampleManifest(Shape(8, TRUE, "none", <<"L">>, 0, FALSE))
ManifestBadMagic == SampleManifest(BadMagic)
ManifestScanned ==
    Uint32Seq(<<0, ATTR_DEBUGGABLE, 0>>) \o BooleanMarker \o Uint32Seq(<<0, 0, 0, 0>>)
ManifestEndless == Uint32Seq(<<CHUNK_AXML_FILE, 16, 0, 0>>)
SampleManifests ==
    {ManifestInPlace, ManifestAndroid, ManifestNoAttribute, ManifestBadMagic,
     ManifestScanned, ManifestEndless}

File(name, data) == <<name, [dir |-> FALSE, data |-> data]>>
Dir(name) == <<name, [dir |-> TRUE, data |-> <<>>]>>
Archive(entries) ==
    [n \in {e[1] : e \in entries} |-> (CHOOSE e \in entries : e[1] = n)[2]]

\* An APK: its manifest (if any), code, old signature entries in upper and
\* lower case, a name under META-INF that holds "sign", a name that ends in
\* U+017F and f, a file under META-INF that is no signature, a signature
\* name under a prefix in lower case, a directory, and a long entry name.
SampleApk(manifests) ==
    Archive({File("AndroidManifest.xml", m) : m \in manifests}
            \cup {File("classes.dex", <<1>>), File("META-INF/OLD.SF", <<2>>),
                  File("META-INF/old.rsa", <<5>>), File("META-INF/MANIFEST.MF", <<6>>),
                  File("META-INF/designs.txt", <<7>>), File("META-INF/x.~f", <<8>>),
                  File("META-INF/services/foo", <<3>>), File("meta-inf/X.SF", <<9>>),
                  Dir("res/"), File(LongName(65), <<4>>)})
BaseApk ==
    Archive({File("AndroidManifest.xml", ManifestInPlace), File("classes.dex", <<1>>),
             File("META-INF/OLD.SF", <<2>>), Dir("res/")})
SplitEn ==
    Archive({File("AndroidManifest.xml", <<50>>), File("classes.dex", <<51>>),
             File("res/en.arsc", <<7>>), File("assets/a", <<6>>),
             File("META-INF/X.SF", <<8>>), Dir("lib/")})
SplitArm == Archive({File("res/en.arsc", <<9>>), File("lib/arm/x.so", <<10>>)})

Nested(name, zip) == [name |-> name, dir |-> FALSE, zip |-> zip]
SampleBundles ==
    { <<Nested("split_config.en.apk", SplitEn), Nested("base.apk", BaseApk),
        Nested("toc.pb", <<>>), Nested("split_config.arm.apk", SplitArm)>>,
      <<Nested("universal.apk", SplitEn), Nested("base.apk", BaseApk)>>,
      <<Nested("a.apk", BaseApk), Nested("b.apk", SplitArm)>>,
      <<Nested("notes.txt", <<>>), [name |-> "x.apk", dir |-> TRUE, zip |-> <<>>]>> }

\* The runs: every sample manifest and the missing manifest without a
\* failure, and each failure of a collaborator on one APK and one bundle
\* ("log": the callback onLog throws whenever it is called).
SampleRuns ==
    { [file |-> [name |-> "app.apk", zip |-> SampleApk({m})], fault |-> "none"] :
        m \in SampleManifests }
    \cup { [file |-> [name |-> "app.apk", zip |-> SampleApk({})], fault |-> "none"] }
    \cup { [file |-> [name |-> "app.apk", zip |-> SampleApk({ManifestInPlace})], fault |-> f] :
        f \in {"load", "keygen", "sign", "emit", "log"} }
    \cup { [file |-> [name |-> "Bundle.APKS", zip |-> b], fault |-> "none"] : b \in SampleBundles }
    \cup { [file |-> [name |-> "Bundle.APKS", zip |-> b], fault |-> f] :
        b \in {<<Nested("split_config.en.apk", SplitEn), Nested("base.apk", BaseApk)>>},
        f \in {"load", "base", "split", "emit"} }

Init ==
    /\ \E run \in SampleRuns : pIn = run.file /\ pFault = run.fault
    /\ pZip = <<>> /\ pApk = 0 /\ pSplitPending = {} /\ pMerged = 0
    /\ pManifest = <<>> /\ pPending = {} /\ pFileMap = <<>> /\ pKey = NoKey
    /\ pOut = <<>> /\ pResult = Pending /\ pLogs = <<>>
    /\ ppc = "start"
    /\ WrapIdle /\ SignIdle /\ AxmlIdle /\ LenIdle

\* log(type, message): logs.push(entry); onLog(entry).
Log(type, message) == [type |-> type, message |-> message]

\* A catch block that logs the error and yet reports a successful result.
Fails_reportsSuccess(logs, message) ==
    /\ pLogs' = Append(logs, Log("error", "Processing failed: " \o message))
    /\ pResult' = [success |-> TRUE, apkBlob |-> FALSE, apkInfo |-> FALSE, returned |-> TRUE]
    /\ ppc' = "returned"

\* The catch block of processApk, entered with the events logged so far.
Fails(logs, message) ==
    /\ pLogs' = Append(logs, Log("error", "Processing failed: " \o message))
    /\ pResult' = [success |-> FALSE, apkBlob |-> FALSE, apkInfo |-> FALSE, returned |-> TRUE]
    /\ ppc' = "returned"

isApks == EndsWith(ToLowerCase(Chars(pIn.name)), Chars(".apks"))

\* The catch block when onLog throws: the entry is pushed, the exception of
\* the callback leaves the catch block and the promise of processApk rejects.
Rejects(logs, message) ==
    /\ pLogs' = Append(logs, Log("error", "Processing failed: " \o message))
    /\ pResult' = [success |-> FALSE, apkBlob |-> FALSE, apkInfo |-> FALSE, returned |-> FALSE]
    /\ ppc' = "rejected"

\* From the call to the loaded archive (an APK) or to processApksBundle.
Load ==
    /\ ppc = "start"
    /\ LET logs == <<Log("info", "Loading file: " \o pIn.name)>>
       IN  IF pFault = "log"
           THEN Rejects(logs, "callback") /\ UNCHANGED pZip
           ELSE IF isApks
           THEN /\ pLogs' = Append(logs, Log("info", "Detected APKS bundle format"))
                /\ ppc' = "bundle"
                /\ UNCHANGED <<pZip, pResult>>
           ELSE IF pFault = "load"
           THEN Fails(logs, "archive") /\ UNCHANGED pZip
           ELSE /\ pZip' = pIn.zip
                /\ pLogs' = Append(logs, Log("success", "APK extracted successfully"))
                /\ ppc' = "parse"
                /\ UNCHANGED pResult
    /\ UNCHANGED <<pIn, pFault, pApk, pSplitPending, pMerged, pManifest, pPending, pFileMap,
                   pKey, pOut, wrapVars, signVars, axmlVars, lenVars>>

\* processApksBundle up to the loaded base archive.
BundleOpen ==
    /\ ppc = "bundle"
    /\ LET apkFiles == apkFilesOf(pIn.zip)
           base == baseApkIndex(apkFiles)
           logs == pLogs \o <<Log("info", "Found " \o ToString(Len(apkFiles)) \o " APK(s) in bundle"),
                              Log("info", "Base APK: " \o apkFiles[base].name)>>
       IN  IF pFault = "load"
           THEN Fails(pLogs, "archive") /\ UNCHANGED <<pZip, pApk>>
           ELSE IF Len(apkFiles) = 0
           THEN Fails(pLogs, "No APK files found in APKS bundle") /\ UNCHANGED <<pZip, pApk>>
           ELSE IF pFault = "base"
           THEN Fails(logs, "archive") /\ UNCHANGED <<pZip, pApk>>
           ELSE /\ pZip' = apkFiles[base].zip
                /\ pLogs' = Append(logs, Log("success", "Base APK extracted"))
                /\ pApk' = 1
                /\ ppc' = "merge"
                /\ UNCHANGED pResult
    /\ UNCHANGED <<pIn, pFault, pSplitPending, pMerged, pManifest, pPending, pFileMap,
                   pKey, pOut, wrapVars, signVars, axmlVars, lenVars>>

\* The next split is loaded and the reads of its entries are started.
SplitBegin ==
    /\ ppc = "merge"
    /\ LET apkFiles == apkFilesOf(pIn.zip)
           k == nextSplit(apkFiles, pApk)
           logs == Append(pLogs, Log("info", "Merging split: " \o apkFiles[k].name))
       IN  /\ k <= Len(apkFiles)
           /\ IF pFault = "split"
              THEN Fails(logs, "archive") /\ UNCHANGED <<pApk, pSplitPending, pMerged>>
              ELSE /\ pApk' = k
                   /\ pSplitPending' = splitReads(pZip, apkFiles[k].zip)
                   /\ pMerged' = 0
                   /\ pLogs' = logs
                   /\ ppc' = "merging"
                   /\ UNCHANGED pResult
    /\ UNCHANGED <<pIn, pFault, pZip, pManifest, pPending, pFileMap, pKey, pOut,
                   wrapVars, signVars, axmlVars, lenVars>>

\* One read of a split entry completes: mainZip.file(path, data); mergedCount++.
SplitRead(e) ==
    /\ ppc = "merging"
    /\ e \in pSplitPending
    /\ pZip' = ZipPut(pZip, e[1], e[2])
    /\ pMerged' = pMerged + 1
    /\ pSplitPending' = pSplitPending \ {e}
    /\ UNCHANGED <<pIn, pFault, pApk, pManifest, pPending, pFileMap, pKey, pOut, pResult,
                   pLogs, ppc, wrapVars, signVars, axmlVars, lenVars>>

\* Promise.all(splitFiles) resolves.
SplitEnd ==
    /\ ppc = "merging"
    /\ pSplitPending = {}
    /\ pLogs' = Append(pLogs, Log("success", "Merged " \o ToString(pMerged) \o " files from "
                                             \o apkFilesOf(pIn.zip)[pApk].name))
    /\ pApk' = pApk + 1
    /\ ppc' = "merge"
    /\ UNCHANGED <<pIn, pFault, pZip, pSplitPending, pMerged, pManifest, pPending, pFileMap,
                   pKey, pOut, pResult, wrapVars, signVars, axmlVars, lenVars>>

\* No split is left: processApksBundle returns mainZip.
MergeDone ==
    /\ ppc = "merge"
    /\ nextSplit(apkFilesOf(pIn.zip), pApk) > Len(apkFilesOf(pIn.zip))
    /\ pLogs' = Append(pLogs, Log("success", "All splits merged into single APK"))
    /\ ppc' = "parse"
    /\ UNCHANGED <<pIn, pFault, pZip, pApk, pSplitPending, pMerged, pManifest, pPending,
                   pFileMap, pKey, pOut, pResult, wrapVars, signVars, axmlVars, lenVars>>

\* (mutant) a manifest that cannot be parsed ends the run.
ParseManifest_aborts ==
    /\ ppc = "parse"
    /\ IF ~ZipFile(pZip, "AndroidManifest.xml")
       THEN Fails(pLogs, "AndroidManifest.xml not found in APK") /\ UNCHANGED pManifest
       ELSE LET manifestData == pZip["AndroidManifest.xml"].data
                logs == Append(pLogs, Log("info", "Parsing AndroidManifest.xml (binary AXML format)..."))
            IN  /\ pManifest' = manifestData
                /\ Let(parse(manifestData), LAMBDA r :
                       IF r.ok
                       THEN /\ pLogs' = Append(logs, Log("success", "Parsed manifest"))
                            /\ ppc' = "patch"
                            /\ UNCHANGED pResult
                       ELSE IF r.why = "throws"
                       THEN Fails(logs, "parse")
                       ELSE pLogs' = logs /\ ppc' = "hung" /\ UNCHANGED pResult)
    /\ UNCHANGED <<pIn, pFault, pZip, pApk, pSplitPending, pMerged, pPending, pFileMap,
                   pKey, pOut, wrapVars, signVars, axmlVars, lenVars>>

\* The manifest entry is looked up, read and parsed for the facts.
ParseManifest ==
    /\ ppc = "parse"
    /\ IF ~ZipFile(pZip, "AndroidManifest.xml")
       THEN Fails(pLogs, "AndroidManifest.xml not found in APK") /\ UNCHANGED pManifest
       ELSE LET manifestData == pZip["AndroidManifest.xml"].data
                logs == Append(pLogs, Log("info", "Parsing AndroidManifest.xml (binary AXML format)..."))
                r == parse(manifestData)
            IN  /\ pManifest' = manifestData
                /\ UNCHANGED pResult
                /\ IF r.ok
                   THEN /\ pLogs' = logs \o <<Log("success", "Parsed manifest")>>
                                    \o (IF isDebuggable(r.parsed)
                                        THEN <<Log("warning", "App is already debuggable")>>
                                        ELSE <<>>)
                        /\ ppc' = "patch"
                   ELSE IF r.why = "throws"
                   THEN /\ pLogs' = Append(logs, Log("warning",
                                        "Could not fully parse manifest, using fallback"))
                        /\ ppc' = "patch"
                   ELSE pLogs' = logs /\ ppc' = "hung"
    /\ UNCHANGED <<pIn, pFault, pZip, pApk, pSplitPending, pMerged, pPending, pFileMap,
                   pKey, pOut, wrapVars, signVars, axmlVars, lenVars>>

\* The manifest is patched, by makeManifestDebuggable or else by the byte
\* scan, and put back into the archive.
PatchManifest ==
    /\ ppc = "patch"
    /\ LET logs == Append(pLogs, Log("info", "Patching manifest to enable debugging..."))
           r == makeManifestDebuggable(pManifest)
       IN  IF r.ok
           THEN /\ pZip' = ZipPut(pZip, "AndroidManifest.xml", r.bytes)
                /\ pLogs' = Append(logs, Log("success", "Manifest patched: android:debuggable=true"))
                /\ ppc' = "strip"
           ELSE IF r.why = "throws"
           THEN /\ pZip' = ZipPut(pZip, "AndroidManifest.xml", patchManifestBinary(pManifest))
                /\ pLogs' = Append(logs, Log("warning",
                                "Could not modify manifest via AXML, using binary patch"))
                /\ ppc' = "strip"
           ELSE pLogs' = logs /\ ppc' = "hung" /\ UNCHANGED pZip
    /\ UNCHANGED <<pIn, pFault, pApk, pSplitPending, pMerged, pManifest, pPending, pFileMap,
                   pKey, pOut, pResult, wrapVars, signVars, axmlVars, lenVars>>

\* (mutant) after the strip the archive is serialized at once: the sign
\* stage is left out.
StripSignatures_skipsSign ==
    /\ ppc = "strip"
    /\ LET r == removeSignatures(pZip)
       IN  /\ pZip' = r.zip
           /\ pLogs' = pLogs \o <<Log("info", "Removing existing signatures..."),
                                  Log("success", "Removed " \o ToString(r.count)
                                                 \o " signature files from META-INF"),
                                  Log("info", "Generating final APK...")>>
    /\ ppc' = "emit"
    /\ UNCHANGED <<pIn, pFault, pApk, pSplitPending, pMerged, pManifest, pPending, pFileMap,
                   pKey, pOut, pResult, wrapVars, signVars, axmlVars, lenVars>>

\* removeSignatures, then collectFiles starts one read per file entry.
StripSignatures ==
    /\ ppc = "strip"
    /\ LET r == removeSignatures(pZip)
       IN  /\ pZip' = r.zip
           /\ pPending' = collectReads(r.zip)
           /\ pLogs' = pLogs \o <<Log("info", "Removing existing signatures..."),
                                  Log("success", "Removed " \o ToString(r.count)
                                                 \o " signature files from META-INF"),
                                  Log("info", "Collecting files for signing...")>>
    /\ pFileMap' = <<>>
    /\ ppc' = "collect"
    /\ UNCHANGED <<pIn, pFault, pApk, pSplitPending, pMerged, pManifest, pKey, pOut, pResult,
                   wrapVars, signVars, axmlVars, lenVars>>

\* One read of collectFiles completes: fileMap.set(path, data).
CollectRead(f) ==
    /\ ppc = "collect"
    /\ f \in pPending
    /\ pPending' = pPending \ {f}
    /\ pFileMap' = Append(pFileMap, f)
    /\ UNCHANGED <<pIn, pFault, pZip, pApk, pSplitPending, pMerged, pManifest, pKey, pOut,
                   pResult, pLogs, ppc, wrapVars, signVars, axmlVars, lenVars>>

\* Promise.all(filePromises) resolves; the signing key is generated.
KeyGen ==
    /\ ppc = "collect"
    /\ pPending = {}
    /\ LET logs == pLogs \o <<Log("success", "Collected " \o ToString(Len(pFileMap)) \o " files"),
                              Log("info", "Generating debug signing key...")>>
       IN  IF pFault = "keygen"
           THEN Fails(logs, "key generation") /\ UNCHANGED pKey
           ELSE /\ pKey' = generateSigningKey(1)
                /\ pLogs' = logs \o <<Log("success", "RSA 2048-bit key pair generated"),
                                      Log("info", "Creating JAR signature (v1)...")>>
                /\ ppc' = "sign"
                /\ UNCHANGED pResult
    /\ UNCHANGED <<pIn, pFault, pZip, pApk, pSplitPending, pMerged, pManifest, pPending,
                   pFileMap, pOut, wrapVars, signVars, axmlVars, lenVars>>

\* (mutant) a failure of signApk is swallowed: the working archive goes on
\* to be serialized without signature entries.
Sign_unsignedOutput ==
    /\ ppc = "sign"
    /\ IF pFault = "sign"
       THEN pLogs' = pLogs /\ ppc' = "emit" /\ UNCHANGED <<pZip, pResult>>
       ELSE LET r == signApk(pFileMap, pKey)
            IN  /\ pZip' = ZipPut(ZipPut(ZipPut(pZip,
                               "META-INF/MANIFEST.MF", Utf8(r.manifestMF)),
                               "META-INF/CERT.SF", Utf8(r.certSF)),
                               "META-INF/CERT.RSA", r.certRSA)
                /\ pLogs' = pLogs \o <<Log("success", "APK signed with PKCS#7 signature"),
                                       Log("info", "Generating final APK...")>>
                /\ ppc' = "emit"
                /\ UNCHANGED pResult
    /\ UNCHANGED <<pIn, pFault, pApk, pSplitPending, pMerged, pManifest, pPending, pFileMap,
                   pKey, pOut, wrapVars, signVars, axmlVars, lenVars>>

\* signApk, then the three signature entries are put into the archive; a
\* string is stored as its UTF-8 bytes.
Sign ==
    /\ ppc = "sign"
    /\ IF pFault = "sign"
       THEN Fails(pLogs, "signing") /\ UNCHANGED pZip
       ELSE LET r == signApk(pFileMap, pKey)
            IN  /\ pZip' = ZipPut(ZipPut(ZipPut(pZip,
                               "META-INF/MANIFEST.MF", Utf8(r.manifestMF)),
                               "META-INF/CERT.SF", Utf8(r.certSF)),
                               "META-INF/CERT.RSA", r.certRSA)
                /\ pLogs' = pLogs \o <<Log("success", "APK signed with PKCS#7 signature"),
                                       Log("info", "Generating final APK...")>>
                /\ ppc' = "emit"
                /\ UNCHANGED pResult
    /\ UNCHANGED <<pIn, pFault, pApk, pSplitPending, pMerged, pManifest, pPending, pFileMap,
                   pKey, pOut, wrapVars, signVars, axmlVars, lenVars>>

\* generateAsync serializes the archive; processApk returns.
Emit ==
    /\ ppc = "emit"
    /\ IF pFault = "emit"
       THEN Fails(pLogs, "serialization") /\ UNCHANGED pOut
       ELSE /\ pOut' = pZip
            /\ pLogs' = pLogs \o <<Log("success", "APK generated successfully"),
                                   Log("info", "Install with: adb install -t <filename>.apk")>>
            /\ pResult' = [success |-> TRUE, apkBlob |-> TRUE, apkInfo |-> TRUE,
                           returned |-> TRUE]
            /\ ppc' = "returned"
    /\ UNCHANGED <<pIn, pFault, pZip, pApk, pSplitPending, pMerged, pManifest, pPending,
                   pFileMap, pKey, wrapVars, signVars, axmlVars, lenVars>>

Next ==
    \/ Load
    \/ BundleOpen
    \/ SplitBegin
    \/ \E e \in pSplitPending : SplitRead(e)
    \/ SplitEnd
    \/ MergeDone
    \/ ParseManifest
    \/ PatchManifest
    \/ StripSignatures
    \/ \E f \in pPending : CollectRead(f)
    \/ KeyGen
    \/ Sign
    \/ Emit

Spec == Init /\ [][Next]_vars

----------------------------------------------------------------------------
(* Specifications *)

SpecWrap == WrapInit /\ [][WrapCall]_vars

SignNext == (\E f \in SignCandidates : SignRead(f)) \/ SignCall
SpecSigner == SignInit /\ [][SignNext]_vars

AxmlNext == AxmlMake \/ AxmlMakeAgain \/ AxmlInfo \/ AxmlScan
SpecAxml == AxmlInit /\ [][AxmlNext]_vars

LenNext == LenWrite \/ LenRead
SpecLength == LenInit /\ [][LenNext]_vars

----------------------------------------------------------------------------
(* Claims about the signer *)

\* The physical lines of a wrapped line (the text ends with CRLF).
PhysicalLines(out) == LET ls == SplitCRLF(out) IN SubSeq(ls, 1, Len(ls) - 1)

\* C8 (as claimed): every physical line produced by wrapLine is at most 70
\* bytes long before its CRLF, every continuation line is one space followed
\* by at most 69 characters of content, and the physical lines without the
\* leading spaces concatenate to the logical line.
C8_WrapLineBytes ==
    wpc = "done" =>
        LET ph == PhysicalLines(wOut)
        IN  /\ Len(ph) >= 1
            /\ \A k \in 1..Len(ph) : Len(Utf8(ph[k])) <= 70
            /\ \A k \in 2..Len(ph) :
                  /\ Len(ph[k]) >= 2 /\ ph[k][1] = " "
                  /\ Len(ph[k]) - 1 <= 69
            /\ ph[1] \o Flatten([k \in 1..(Len(ph) - 1) |-> Tail(ph[k + 1])]) = wLine

\* The files of a set as a map filled in one fixed order, whatever the set.
RECURSIVE InFixedOrder(_)
InFixedOrder(S) ==
    IF S = {} THEN <<>>
    ELSE LET f == CHOOSE x \in S : TRUE IN <<f>> \o InFixedOrder(S \ {f})

\* C4: the Name blocks of MANIFEST.MF are in strictly ascending lexical order
\* of entry name, and the text does not depend on the insertion order of the
\* map: it is the text obtained from the same files inserted in a fixed order.
C4_ManifestSortedAnyOrder ==
    sgpc = "done" =>
        LET bs == EntryBlocks(sgMF)
        IN  /\ \A k \in 1..(Len(bs) - 1) : LexLess(bs[k].name, bs[k + 1].name)
            /\ createManifestMF(InFixedOrder(sgSet)) = sgMF

C4_Witness ==
    /\ sgpc = "done"
    /\ Len(EntryBlocks(sgMF)) >= 2
    /\ MapKeySeq(sgFiles) # sortedFiles(sgFiles)

\* C5 (as claimed): the .SF has, for each entry of MANIFEST.MF and in the same
\* order, exactly one block whose unwrapped Name is the entry's full name.
C5_SFNamesAreManifestNames ==
    sgpc = "done" =>
        LET mb == EntryBlocks(sgMF)
            sb == EntryBlocks(sgSF)
        IN  /\ Len(sb) = Len(mb)
            /\ \A k \in 1..Len(mb) : sb[k].name = mb[k].name

\* C6: the digest of each .SF block is the SHA-256 of the bytes of the
\* corresponding MANIFEST.MF block: Name line, continuation lines, digest
\* line and the trailing blank line, as they stand in MANIFEST.MF.
C6_SFDigestOfManifestBlock ==
    sgpc = "done" =>
        LET mb == EntryBlocks(sgMF)
            sb == EntryBlocks(sgSF)
        IN  /\ Len(sb) = Len(mb)
            /\ \A k \in 1..Len(mb) : sb[k].digest = sha256Base64(Utf8(mb[k].text))

C6_Witness ==
    /\ sgpc = "done"
    /\ \E k \in 1..Len(EntryBlocks(sgMF)) :
          /\ Len(EntryBlocks(sgMF)[k].name) > 64
          /\ EntryBlocks(sgSF)[k].digest = sha256Base64(Utf8(EntryBlocks(sgMF)[k].text))

----------------------------------------------------------------------------
(* Claims about the codec *)

\* A compiled XML document as a reader of the format reads it: the chunks are
\* walked by their declared sizes and the attributes of an element stand at
\* attributeStart bytes from its extended header.  The strings data of the
\* pool stands at stringsStart bytes from the start of the pool chunk in the
\* format of the Android platform (base = 0), and 8 bytes further in the
\* documents that writeStringPool produces (base = 8).
RECURSIVE ChunkOffsets(_, _)
ChunkOffsets(d, pos) ==
    IF ~Has(d, pos, 8) THEN <<>>
    ELSE LET size == readUint32(d, pos + 4)
         IN  IF size < 8 \/ pos + size > Len(d) THEN <<>>
             ELSE <<pos>> \o ChunkOffsets(d, pos + size)

IsCompiledXml(d) == Has(d, 0, 8) /\ readUint32(d, 0) = CHUNK_AXML_FILE
ChunksOfType(d, type) ==
    IF ~IsCompiledXml(d) THEN {}
    ELSE {ChunkOffsets(d, 8)[k] : k \in {k \in 1..Len(ChunkOffsets(d, 8)) :
                                           readUint32(d, ChunkOffsets(d, 8)[k]) = type}}

StringsAt(d, base) ==
    LET P == ChunksOfType(d, CHUNK_STRING_POOL)
    IN  IF P = {} THEN <<>>
        ELSE LET c == SetMin(P)
                 count == readUint32(d, c + 8)
             IN  IF ~Has(d, c, 28) \/ count < 0 \/ ~Has(d, c + 28, 4 * count) THEN <<>>
                 ELSE Let(readPoolStrings(d, Advance(c + base, readUint32(d, c + 20)), c + 28,
                                          Bit8(readUint32(d, c + 16)), 0, count,
                                          [ok |-> TRUE, strings |-> <<>>, pos |-> 0]),
                          LAMBDA r : IF r.ok THEN r.strings ELSE <<>>)

AndroidResourceIds(d) ==
    LET P == ChunksOfType(d, CHUNK_RESOURCE_IDS)
    IN  IF P = {} THEN <<>>
        ELSE LET c == SetMin(P)
             IN  [i \in 1..((readUint32(d, c + 4) - 8) \div 4) |-> readUint32(d, c + 4 + 4 * i)]

\* The attribute records (offsets) of the elements with the given tag name.
AttributeRecords(d, tag, base) ==
    UNION { {c + 16 + readUint16(d, c + 24) + i * readUint16(d, c + 26) :
                i \in 0..(readUint16(d, c + 28) - 1)} :
            c \in {c \in ChunksOfType(d, CHUNK_XML_START_ELEMENT) :
                      /\ Has(d, c, 36)
                      /\ StrAt(StringsAt(d, base), readUint32(d, c + 20)) = tag} }

\* An attribute record is a debuggable attribute when its name is the string
\* "debuggable" or resolves to the resource id 0x0101000f.
IsDebuggableRecord(d, a, base) ==
    /\ Has(d, a, 20)
    /\ \/ StrAt(StringsAt(d, base), readUint32(d, a + 4)) = STR_debuggable
       \/ /\ readUint32(d, a + 4) >= 0
          /\ readUint32(d, a + 4) < Len(AndroidResourceIds(d))
          /\ AndroidResourceIds(d)[readUint32(d, a + 4) + 1] = ATTR_DEBUGGABLE

\* The offsets of the data words of application/@debuggable.
DebuggableWordsAt(d, base) ==
    {a + 16 : a \in {a \in AttributeRecords(d, STR_application, base) :
                         IsDebuggableRecord(d, a, base)}}
DebuggableWords(d) == DebuggableWordsAt(d, 0)

\* C10 (as claimed): for a compiled XML whose application element has a
\* debuggable attribute, makeManifestDebuggable returns a buffer of the same
\* length that differs from the input only in the four bytes of the data
\* word of that attribute, which are 0xFF in the result.
C10_InPlaceOnlyDataWord ==
    (axpc = "made" /\ DebuggableWords(axDoc) # {}) =>
        /\ axOut.ok
        /\ Len(axOut.bytes) = Len(axDoc)
        /\ \A i \in 1..Len(axDoc) :
              axOut.bytes[i] # axDoc[i] =>
                  \E o \in DebuggableWords(axDoc) : i > o /\ i <= o + 4
        /\ \A o \in DebuggableWords(axDoc) : \A i \in (o + 1)..(o + 4) : axOut.bytes[i] = 255

\* What AXMLParser makes of a document: the application start elements (by
\* position in the element stream) and the attributes of an element that are
\* named "debuggable".
Applications(parsed) ==
    {k \in 1..Len(parsed.elements) :
        /\ parsed.elements[k].chunkType = CHUNK_XML_START_ELEMENT
        /\ StrAt(parsed.strings, parsed.elements[k].name) = STR_application}
DebuggableAttrs(parsed, e) ==
    {i \in 1..Len(e.attributes) : StrAt(parsed.strings, e.attributes[i].name) = STR_debuggable}

\* The document parses and its application element has no debuggable attribute.
LacksDebuggable(d) ==
    Let(parse(d), LAMBDA p :
        /\ p.ok
        /\ Applications(p.parsed) # {}
        /\ \A k \in Applications(p.parsed) :
              DebuggableAttrs(p.parsed, p.parsed.elements[k]) = {})

\* The name "debuggable" resolves to the resource id 0x0101000f: the resource
\* id table has it at the index the string has in the pool.
Aligned(parsed) ==
    LET i == IndexOf(parsed.strings, STR_debuggable)
    IN  /\ i # -1
        /\ i < Len(parsed.resourceIds)
        /\ parsed.resourceIds[i + 1] = ATTR_DEBUGGABLE

\* C11 (as claimed): for a compiled XML whose application element has no
\* debuggable attribute, the output of makeManifestDebuggable parses, its
\* string pool contains "debuggable" and its resource id table has 0x0101000f
\* at the index of that string, or else the rewrite fails instead of
\* returning a document.
C11_RewriteAligned ==
    (axpc = "made" /\ LacksDebuggable(axDoc)) =>
        \/ ~axOut.ok /\ axOut.why = "throws"
        \/ /\ axOut.ok
           /\ Let(parse(axOut.bytes), LAMBDA q : q.ok /\ Aligned(q.parsed))

\* The application start elements of a document (chunk offsets), read with
\* the strings data at the given base, and the fields of a start element.
AppChunks(d, base) ==
    {c \in ChunksOfType(d, CHUNK_XML_START_ELEMENT) :
        /\ Has(d, c, 36)
        /\ StrAt(StringsAt(d, base), readUint32(d, c + 20)) = STR_application}
AttrCount(d, c) == readUint16(d, c + 28)
AttrAt(d, c, i) == c + 16 + readUint16(d, c + 24) + i * readUint16(d, c + 26)

\* A compiled XML whose application element has no debuggable attribute.
AppWithoutDebuggable(d, base) == AppChunks(d, base) # {} /\ DebuggableWordsAt(d, base) = {}

\* The application element at cout of the output has the attributes of the
\* one at cin of the input and, after them, debuggable = true.
OneMoreAttribute(din, cin, dout, cout, base) ==
    /\ AttrCount(dout, cout) = AttrCount(din, cin) + 1
    /\ readUint32(dout, cout + 4) = readUint32(din, cin + 4) + 20
    /\ LET a == AttrAt(dout, cout, AttrCount(dout, cout) - 1)
       IN  /\ Has(dout, a, 20)
           /\ StrAt(StringsAt(dout, base), readUint32(dout, a + 4)) = STR_debuggable
           /\ readInt32(dout, a + 8) = -1
           /\ Shr24(readUint32(dout, a + 12)) = TYPE_INT_BOOLEAN
           /\ readInt32(dout, a + 16) = -1

\* C12 (as claimed): for a compiled XML whose application element has no
\* debuggable attribute, the application start element of the output of
\* makeManifestDebuggable has exactly one more attribute than in the input,
\* the added attribute is the last one, its name is "debuggable", its raw
\* value is -1, its type is boolean and its data word is -1, and the size
\* of the element chunk is the input's plus 20.
C12_OneAttributeAdded ==
    (axpc = "made" /\ \E b \in {0, 8} : AppWithoutDebuggable(axDoc, b)) =>
        /\ axOut.ok
        /\ \E b \in {0, 8} :
              /\ AppWithoutDebuggable(axDoc, b)
              /\ \E bo \in {0, 8} :
                    /\ AppChunks(axOut.bytes, bo) # {}
                    /\ OneMoreAttribute(axDoc, SetMin(AppChunks(axDoc, b)), axOut.bytes,
                                        SetMin(AppChunks(axOut.bytes, bo)), bo)

\* The element stream of a document: for every chunk after the resource id
\* table its kind, namespace index, name index and attribute records, in order.
ElementChunks(d) ==
    IF ~IsCompiledXml(d) THEN <<>>
    ELSE SelectSeq(ChunkOffsets(d, 8),
                   LAMBDA c : readUint32(d, c) \notin {CHUNK_STRING_POOL, CHUNK_RESOURCE_IDS})
ElementAt(d, c) ==
    [kind |-> readUint32(d, c),
     ns |-> IF Has(d, c, 24) THEN readInt32(d, c + 16) ELSE 0,
     name |-> IF Has(d, c, 24) THEN readInt32(d, c + 20) ELSE 0,
     attrs |-> IF readUint32(d, c) = CHUNK_XML_START_ELEMENT /\ Has(d, c, 36)
               THEN [i \in 1..AttrCount(d, c) |-> readAttribute(d, AttrAt(d, c, i - 1))]
               ELSE <<>>]
ElementStream(d) == [k \in 1..Len(ElementChunks(d)) |-> ElementAt(d, ElementChunks(d)[k])]

\* attrs with debuggable = true: the attributes named debuggable have the
\* data word -1; when there is none, one is added after the others.
WithDebuggable(attrs, strings) ==
    LET named(a) == StrAt(strings, a.name) = STR_debuggable
    IN  IF \E i \in 1..Len(attrs) : named(attrs[i])
        THEN {[i \in 1..Len(attrs) |-> IF named(attrs[i]) THEN [attrs[i] EXCEPT !.data = -1]
                                       ELSE attrs[i]]}
        ELSE {Append(attrs, a) :
                 a \in {[namespaceUri |-> ns, name |-> n, valueString |-> -1,
                         type |-> TYPE_INT_BOOLEAN, data |-> -1] :
                           ns \in -1..Len(strings),
                           n \in {n \in 0..Len(strings) : StrAt(strings, n) = STR_debuggable}}}

\* The output reads as the input does, except for debuggable = true on application.
SameExceptDebuggable(din, dout, base) ==
    Let(StringsAt(dout, base), LAMBDA so :
    Let(ElementStream(dout), LAMBDA eo :
    Let(ElementStream(din), LAMBDA ei :
        /\ Len(so) >= Len(StringsAt(din, base))
        /\ SubSeq(so, 1, Len(StringsAt(din, base))) = StringsAt(din, base)
        /\ Len(eo) = Len(ei)
        /\ \A k \in 1..Len(ei) :
              /\ eo[k].kind = ei[k].kind /\ eo[k].ns = ei[k].ns /\ eo[k].name = ei[k].name
              /\ IF /\ ei[k].kind = CHUNK_XML_START_ELEMENT
                    /\ StrAt(so, ei[k].name) = STR_application
                 THEN eo[k].attrs \in WithDebuggable(ei[k].attrs, so)
                 ELSE eo[k].attrs = ei[k].attrs)))

\* C13 (as claimed): for every input that parses, the output of
\* makeManifestDebuggable has the same strings at the same indices and the
\* same element stream (kinds, names, namespace indices, attribute records,
\* in order) as the input, except that the application element carries
\* debuggable = true; no other element and no other attribute differs.
C13_ParsesIdentically ==
    axpc = "made" =>
        \A b \in {0, 8} :
            AppChunks(axDoc, b) # {} => axOut.ok /\ SameExceptDebuggable(axDoc, axOut.bytes, b)

\* C14 (as claimed): every result of makeManifestDebuggable is either
\* byte-neutral (of the length of the input, by an overwrite of a data word)
\* or the buffer regenerated as a whole by rebuildWithDebuggable; none is
\* a copy of the input with an attribute record spliced in.
C14_NeutralOrRegenerated ==
    (axpc = "made" /\ axOut.ok) =>
        \/ Len(axOut.bytes) = Len(axDoc)
        \/ axOut = rebuildWithDebuggable(parse(axDoc).parsed, axDoc)

\* The value strings of the name attributes of the uses-permission elements
\* of a parsed document, in document order, the empty ones left out.
PermissionNames(parsed) ==
    Flatten([e \in 1..Len(parsed.elements) |->
        LET el == parsed.elements[e]
        IN  IF /\ el.chunkType = CHUNK_XML_START_ELEMENT
               /\ StrAt(parsed.strings, el.name) = Codes("uses-permission")
            THEN Flatten([a \in 1..Len(el.attributes) |->
                     IF StrAt(parsed.strings, el.attributes[a].name) = Codes("name")
                        /\ StrAt(parsed.strings, el.attributes[a].valueString) # <<>>
                     THEN <<StrAt(parsed.strings, el.attributes[a].valueString)>>
                     ELSE <<>>])
            ELSE <<>>])
WithoutLeadingPrefix(name) ==
    IF StartsWith(name, STR_permissionPrefix)
    THEN SubstringFrom(name, Len(STR_permissionPrefix))
    ELSE name

\* C21 (as claimed): for every uses-permission name, the permission list
\* holds the name without 'android.permission.' when that text is a leading
\* prefix of the name, and the name verbatim otherwise, also when the text
\* occurs further in.
C21_OnlyLeadingPrefixStripped ==
    (axpc = "read" /\ axOut.ok) =>
        axOut.info.permissions =
            [i \in 1..Len(PermissionNames(axOut.parsed)) |->
                WithoutLeadingPrefix(PermissionNames(axOut.parsed)[i])]

\* C22 (as claimed): in every document that parse returns, the name index of
\* every element and of every attribute is within the string pool; an input
\* that refers to a string outside the pool is rejected, not returned.
InPool(parsed, index) == index >= 0 /\ index < Len(parsed.strings)
C22_NamesInRange ==
    (axpc = "read" /\ axOut.ok) =>
        \A e \in 1..Len(axOut.parsed.elements) :
            LET el == axOut.parsed.elements[e]
            IN  el.chunkType \in {CHUNK_XML_START_ELEMENT, CHUNK_XML_END_ELEMENT} =>
                    /\ InPool(axOut.parsed, el.name)
                    /\ \A a \in 1..Len(el.attributes) :
                          InPool(axOut.parsed, el.attributes[a].name)

\* The output of makeManifestDebuggable when it is the structural rewrite.
Regenerated ==
    /\ axpc = "made" /\ axOut.ok /\ Len(axOut.bytes) # Len(axDoc)
    /\ axOut = rebuildWithDebuggable(parse(axDoc).parsed, axDoc)

\* The strings of the pool chunk at c lie one after another from the end of
\* the offset table, and entry i of the table is where string i begins.
RECURSIVE OffsetsInOrder(_, _, _, _)
OffsetsInOrder(d, c, i, at) ==
    LET count == readUint32(d, c + 8)
        region == c + 28 + 4 * count
    IN  IF i >= count THEN TRUE
        ELSE /\ readUint32(d, c + 28 + 4 * i) = at
             /\ Let(readPoolString(d, region + at, TRUE), LAMBDA r :
                    r.ok /\ OffsetsInOrder(d, c, i + 1, r.pos + 1 - region))

\* C25 (as claimed): in the string pool that the structural rewrite writes,
\* the chunk size is a multiple of 4, the stringsStart field is the offset
\* of the strings data from the start of the chunk, and entry i of the
\* offset table is the position of string i within the strings data.
C25_PoolHeaderConsistent ==
    Regenerated =>
        /\ readUint32(axOut.bytes, 8) = CHUNK_STRING_POOL
        /\ readUint32(axOut.bytes, 12) % 4 = 0
        /\ readUint32(axOut.bytes, 28) = 28 + 4 * readUint32(axOut.bytes, 16)
        /\ OffsetsInOrder(axOut.bytes, 8, 0, 0)

\* C26: for every byte length from 0 to 0x7FFF, the prefix that
\* writeStringPool writes is read back by readUtf8Length as that length:
\* one unit below 0x80, else two units of which the first has its high bit
\* set, and the reader stops right after the prefix.
C26_LengthRoundTrip ==
    lnpc = "read" =>
        /\ lnRead.ok /\ lnRead.len = lnLen /\ lnRead.pos = Len(lnOut)
        /\ lnLen < 128 => Len(lnOut) = 1
        /\ lnLen >= 128 => Len(lnOut) = 2 /\ lnOut[1] >= 128
C26_Witness == lnpc = "read" /\ lnLen = 32767 /\ lnRead.ok /\ lnRead.len = 32767 /\ Len(lnOut) = 2

\* C27 (as claimed): makeManifestDebuggable terminates on every buffer: it
\* returns bytes or raises an error, whatever type and size the header of a
\* chunk declares.
C27_Terminates == axpc = "made" => (axOut.ok \/ axOut.why = "throws")

\* C28 (as claimed): makeManifestDebuggable is idempotent: applied to bytes
\* that it has returned, it returns the same bytes.
C28_Idempotent == axpc = "remade" => (axOut.ok /\ axOut.again.bytes = axOut.previous)

\* C30 (as claimed): patchManifestBinary returns a buffer of the length of its input that
\* is either the same bytes, or the same bytes except that the whole four-byte
\* word behind a boolean-type marker is 0xFF; never a part of that word only.
WordSetBehind(data, out, j) ==
    /\ BytesAt(data, j, BooleanMarker)
    /\ j + 8 <= Len(data)
    /\ \A k \in 1..Len(data) :
           out[k] = IF k > j + 4 /\ k <= j + 8 THEN 255 ELSE data[k]

C30_WholeWordOrNothing ==
    axpc = "scanned" =>
        /\ Len(axOut.bytes) = Len(axDoc)
        /\ \/ axOut.bytes = axDoc
           \/ \E j \in 0..(Len(axDoc) - 8) : WordSetBehind(axDoc, axOut.bytes, j)

----------------------------------------------------------------------------
(* Claims about processApk *)

SignatureNames == {"META-INF/MANIFEST.MF", "META-INF/CERT.SF", "META-INF/CERT.RSA"}
Succeeded == ppc = "returned" /\ pResult.success

\* TextDecoder.decode of the stored bytes of a text entry.
DecodeText(b) ==
    Flatten([i \in 1..Len(b) |->
                IF b[i] = "0xC3" /\ i < Len(b) /\ b[i + 1] = "0xA9" THEN <<"U+00E9">>
                ELSE IF b[i] = "0xA9" /\ i > 1 /\ b[i - 1] = "0xC3" THEN <<>>
                ELSE <<b[i]>>])

C2_EmittedManifestDebuggable ==
    Succeeded =>
        \E base \in {0, 8} :
            \E o \in DebuggableWordsAt(pOut["AndroidManifest.xml"].data, base) :
                readInt32(pOut["AndroidManifest.xml"].data, o) = -1

\* The entries of an archive that MANIFEST.MF is to list.
Listed(zip) == {n \in FileNames(zip) : ~StartsWith(Chars(n), Chars("META-INF/"))}

\* C3: in the emitted archive MANIFEST.MF has exactly one Name block for
\* every non-directory entry whose name does not begin with META-INF/, no
\* block for any other name, and the digest of each block is the SHA-256 of
\* the bytes the entry has in the emitted archive.
C3_ManifestListsEmittedEntries ==
    Succeeded =>
        Let(EntryBlocks(DecodeText(pOut["META-INF/MANIFEST.MF"].data)), LAMBDA bs :
            /\ \A n \in Listed(pOut) :
                  Cardinality({k \in 1..Len(bs) : bs[k].name = Chars(n)}) = 1
            /\ \A k \in 1..Len(bs) :
                  \E n \in Listed(pOut) :
                      /\ bs[k].name = Chars(n)
                      /\ bs[k].digest = sha256Base64(pOut[n].data))

C3_Witness ==
    /\ Succeeded
    /\ pIn.name = "app.apk"
    /\ "META-INF/services/foo" \in FileNames(pOut)
    /\ pOut["AndroidManifest.xml"].data # pIn.zip["AndroidManifest.xml"].data
    /\ \E k \in 1..Len(EntryBlocks(DecodeText(pOut["META-INF/MANIFEST.MF"].data))) :
          LET b == EntryBlocks(DecodeText(pOut["META-INF/MANIFEST.MF"].data))[k]
          IN  /\ b.name = Chars("AndroidManifest.xml")
              /\ b.digest = sha256Base64(pOut["AndroidManifest.xml"].data)
              /\ b.digest # sha256Base64(pIn.zip["AndroidManifest.xml"].data)

\* C7: the SHA-256-Digest-Manifest of the .SF is the SHA-256 of the bytes
\* stored at META-INF/MANIFEST.MF in the emitted archive, and the signature
\* of CERT.RSA is computed over the bytes stored at META-INF/CERT.SF.
C7_DigestsOfStoredBytes ==
    Succeeded =>
        /\ MainAttr(DecodeText(pOut["META-INF/CERT.SF"].data), Chars("SHA-256-Digest-Manifest"))
               = sha256Base64(pOut["META-INF/MANIFEST.MF"].data)
        /\ pOut["META-INF/CERT.RSA"].data.signature.over = pOut["META-INF/CERT.SF"].data

C7_Witness ==
    /\ Succeeded
    /\ Len(EntryBlocks(DecodeText(pOut["META-INF/MANIFEST.MF"].data))) >= 2
    /\ MainAttr(DecodeText(pOut["META-INF/CERT.SF"].data), Chars("SHA-256-Digest-Manifest"))
           = sha256Base64(pOut["META-INF/MANIFEST.MF"].data)
    /\ pOut["META-INF/CERT.RSA"].data.signature.key = pKey.privateKey

\* The base archive and the splits of the bundle being processed.
BundleBase == apkFilesOf(pIn.zip)[baseApkIndex(apkFilesOf(pIn.zip))]
BundleSplits ==
    {apkFilesOf(pIn.zip)[k].zip :
        k \in {k \in 1..Len(apkFilesOf(pIn.zip)) :
                  apkFilesOf(pIn.zip)[k].name # BundleBase.name}}

\* C9: during and after the merge of processApksBundle, every path that is
\* in the base archive and in a split has the bytes of the base in the merged
\* archive, whichever reads of split entries have completed.
C9_BaseWins ==
    (isApks /\ ppc \in {"merge", "merging", "parse"}) =>
        \A split \in BundleSplits :
            \A path \in DOMAIN split \cap DOMAIN BundleBase.zip :
                pZip[path] = BundleBase.zip[path]

C9_Witness ==
    /\ isApks /\ ppc = "parse"
    /\ \E split \in BundleSplits :
          /\ \E path \in FileNames(split) \cap FileNames(BundleBase.zip) :
                /\ ~StartsWith(Chars(path), Chars("META-INF/"))
                /\ split[path].data # BundleBase.zip[path].data
                /\ pZip[path] = BundleBase.zip[path]
          /\ \E path \in (FileNames(split) \cap DOMAIN pZip) \ DOMAIN BundleBase.zip :
                pZip[path].data = split[path].data


\* C15 (as claimed): for every input file and every failure raised inside
\* the pipeline or by a collaborator it calls, processApk resolves to a
\* result value: its promise is never rejected and no call stays without
\* a result.
C15_AlwaysResolves == ppc \notin {"rejected", "hung"}


\* C16: when key generation or signing (certificate construction, CMS
\* signing) fails, the last event is an error event, processApk returns
\* success = false without an apkBlob, and no archive is ever produced in
\* that run.
LastLog == pLogs[Len(pLogs)]
C16_SignFailureIsFatal ==
    pFault \in {"keygen", "sign"} =>
        /\ pOut = <<>>
        /\ ppc = "returned" =>
              /\ ~pResult.success /\ ~pResult.apkBlob /\ pResult.returned
              /\ LastLog.type = "error"
C16_Witness_KeyGen == pFault = "keygen" /\ ppc = "returned" /\ pFileMap # <<>> /\ pKey = NoKey
C16_Witness == pFault = "sign" /\ ppc = "returned" /\ pKey # NoKey /\ pFileMap # <<>>


\* C17: when parsing the compiled manifest fails, the run is not ended: a
\* warning event is logged, the manifest put back into the archive is the
\* result of the byte scan on the original bytes, and the run goes on
\* through strip, sign and emit to a successful result that holds that
\* manifest and the signature entries.
ParseWarning == Log("warning", "Could not fully parse manifest, using fallback")
Warned == \E i \in 1..Len(pLogs) : pLogs[i] = ParseWarning
Parsed == pManifest # <<>> /\ ppc \in {"patch", "strip", "collect", "sign", "emit", "returned"}
FallbackRun(r) ==
    (Parsed /\ ~r.ok) =>
        /\ r.why = "throws"
        /\ Warned
        /\ ppc = "patch" => pResult = Pending
        /\ ppc \in {"strip", "collect", "sign", "emit"} =>
              /\ pResult = Pending
              /\ pZip["AndroidManifest.xml"].data = patchManifestBinary(pManifest)
        /\ (ppc = "returned" /\ pFault = "none") =>
              /\ pResult.success /\ pResult.apkBlob
              /\ pOut["AndroidManifest.xml"].data = patchManifestBinary(pManifest)
              /\ SignatureNames \subseteq DOMAIN pOut
C17_ParseFailureFallsBack == Let(parse(pManifest), FallbackRun)
C17_Witness ==
    /\ Warned /\ ppc = "returned" /\ pResult.success
    /\ pOut["AndroidManifest.xml"].data # pManifest


\* The stage a run is in, by the position of processApk: load 1, merge 2,
\* manifest parse 3, manifest patch 4, signature strip 5, sign 6 (the files
\* are collected, the key generated, the archive signed), emit 7, over 8.
StageOfPc ==
    [start |-> 1, bundle |-> 1, merge |-> 2, merging |-> 2, parse |-> 3, patch |-> 4,
     hung |-> 8, strip |-> 5, collect |-> 6, sign |-> 6, emit |-> 7, returned |-> 8,
     rejected |-> 8]
\* The event that processApk logs when it enters a stage, and the stages
\* entered so far in the order of their events.
StageEvents ==
    <<"Loading file: " \o pIn.name, "Detected APKS bundle format",
      "Parsing AndroidManifest.xml (binary AXML format)...",
      "Patching manifest to enable debugging...", "Removing existing signatures...",
      "Creating JAR signature (v1)...", "Generating final APK...">>
StageEntered(i) == {k \in 1..7 : pLogs[i].message = StageEvents[k]}
StageLogs == {i \in 1..Len(pLogs) : StageEntered(i) # {}}
StagesInOrder ==
    \A i, j \in StageLogs : i < j =>
        \A a \in StageEntered(i), b \in StageEntered(j) : a < b
StagesOfSuccess ==
    Succeeded =>
        UNION {StageEntered(i) : i \in StageLogs} = (IF isApks THEN 1..7 ELSE {1} \cup 3..7)
MergeOnlyForBundle ==
    (ppc \in {"bundle", "merge", "merging"} \/ \E i \in StageLogs : 2 \in StageEntered(i))
        => isApks
StageStep ==
    /\ StageOfPc[ppc] < 8
    /\ StageOfPc[ppc'] >= StageOfPc[ppc]
    /\ StageOfPc[ppc'] < 8 => StageOfPc[ppc'] <= StageOfPc[ppc] + (IF ppc = "start" /\ ~isApks THEN 2 ELSE 1)

\* C18: in every run the stages are entered only in the order load, merge,
\* manifest parse, manifest patch, signature strip, sign, emit, each at most
\* once and merge only for a bundle; a successful run has entered all of
\* them (merge excepted for a single archive); once the run is over, by a
\* result or a fatal failure, no step follows.
C18_StageOrder ==
    /\ [](StagesInOrder /\ StagesOfSuccess /\ MergeOnlyForBundle)
    /\ [][StageStep]_vars
C18_Witness ==
    /\ Succeeded /\ isApks
    /\ Cardinality(StageLogs) = 7


\* Upper case of the letters a-z alone.
AsciiUpper(t) ==
    [i \in 1..Len(t) |-> IF InTable(Lowers, t[i]) THEN Uppers[IndexIn(Lowers, t[i])] ELSE t[i]]
NamedAsSignature(path) ==
    /\ StartsWith(path, Chars("META-INF/"))
    /\ \/ \E ext \in {".SF", ".RSA", ".DSA", ".EC"} : EndsWith(AsciiUpper(path), Chars(ext))
       \/ AsciiUpper(path) = Chars("META-INF/MANIFEST.MF")
       \/ \E word \in {"CERT", "SIGN"} : Includes(AsciiUpper(path), Chars(word))
RemovedCountLog(n) == Log("success", "Removed " \o ToString(n) \o " signature files from META-INF")

\* C19 (as claimed): removeSignatures removes an entry if and only if its
\* name begins with META-INF/ and its ASCII-uppercased name ends with .SF,
\* .RSA, .DSA or .EC, equals META-INF/MANIFEST.MF, or contains CERT or SIGN;
\* every other entry stays with its bytes unchanged, and the count that is
\* returned (and logged) is the number of entries removed.
C19_RemovesExactlySignatures ==
    [][ppc = "strip" =>
        /\ DOMAIN pZip' = {n \in DOMAIN pZip : ~NamedAsSignature(Chars(n))}
        /\ \A n \in DOMAIN pZip' : pZip'[n] = pZip[n]
        /\ pLogs'[Len(pLogs) + 2] = RemovedCountLog(Cardinality(DOMAIN pZip \ DOMAIN pZip'))]_vars


\* C20: when the input is a bundle without any entry that is not a directory
\* and whose name ends with .apk, the run never gets past the opening of
\* the bundle and never produces an archive; it returns success = false
\* without an apkBlob, and its last event is the error event of the empty
\* bundle.
EmptyBundle ==
    /\ isApks
    /\ \A i \in 1..Len(pIn.zip) :
          pIn.zip[i].dir \/ ~EndsWith(Chars(pIn.zip[i].name), Chars(".apk"))
EmptyBundleError == Log("error", "Processing failed: No APK files found in APKS bundle")
C20_EmptyBundleFails ==
    (EmptyBundle /\ pFault = "none") =>
        /\ ppc \in {"start", "bundle", "returned"}
        /\ pOut = <<>> /\ pZip = <<>>
        /\ ppc = "returned" =>
              /\ ~pResult.success /\ ~pResult.apkBlob /\ pResult.returned
              /\ LastLog = EmptyBundleError
C20_Witness ==
    /\ EmptyBundle /\ ppc = "returned" /\ LastLog = EmptyBundleError
    /\ \E i \in 1..Len(pIn.zip) : pIn.zip[i].dir /\ EndsWith(Chars(pIn.zip[i].name), Chars(".apk"))


\* The nested archives of the bundle by name, in enumeration order, and the
\* base by the order of preference: named base.apk, else holding "base",
\* else holding "universal", else the first.
NestedNames ==
    SelectSeq([i \in 1..Len(pIn.zip) |-> pIn.zip[i]],
              LAMBDA e : ~e.dir /\ EndsWith(Chars(e.name), Chars(".apk")))
FirstNested(Test(_)) ==
    SelectSeq(NestedNames, LAMBDA e : Test(ToLowerCase(Chars(e.name))))
PreferredBase ==
    LET exact == FirstNested(LAMBDA n : n = Chars("base.apk"))
        base == FirstNested(LAMBDA n : Includes(n, Chars("base")))
        universal == FirstNested(LAMBDA n : Includes(n, Chars("universal")))
    IN  IF exact # <<>> THEN exact[1].name
        ELSE IF base # <<>> THEN base[1].name
        ELSE IF universal # <<>> THEN universal[1].name
        ELSE NestedNames[1].name

\* C23 (as claimed): the base that processApksBundle selects (and logs) is
\* the first nested archive named base.apk, else the first whose name holds
\* "base", else the first whose name holds "universal", else the first one.
C23_BasePreference ==
    (isApks /\ ppc \in {"merge", "merging"}) =>
        \E i \in 1..Len(pLogs) : pLogs[i] = Log("info", "Base APK: " \o PreferredBase)


\* The splits of the bundle in enumeration order, the entries of a split that
\* may be merged, and the first split that holds such an entry at a path.
SplitSeq == SelectSeq(apkFilesOf(pIn.zip), LAMBDA f : f.name # BundleBase.name)
Mergeable(split, path) ==
    /\ path \in DOMAIN split /\ ~split[path].dir
    /\ ~StartsWith(Chars(path), Chars("META-INF/"))
Holders(path) == {k \in 1..Len(SplitSeq) : Mergeable(SplitSeq[k].zip, path)}
FirstHolder(path) == SplitSeq[SetMin(Holders(path))].zip

ErrorEvents == {i \in 1..Len(pLogs) : pLogs[i].type = "error"}

C29_ErrorIsFinal ==
    /\ ErrorEvents \subseteq {Len(pLogs)}
    /\ pResult.returned => (~pResult.success <=> ErrorEvents # {})
    /\ pResult.returned /\ ~pResult.success => ~pResult.apkBlob /\ ~pResult.apkInfo

C29_Witness ==
    /\ pResult.returned /\ ~pResult.success
    /\ Len(pLogs) > 2
    /\ ErrorEvents = {Len(pLogs)}

=============================================================================
